---- MODULE Spec2Model ----
(***************************************************************************)
(* DCC Generator firmware (src/HCI.cpp): district power monitor and        *)
(* phase-flip lock, global power mode controller, transmission buffer      *)
(* ring, pending packet pool, signal generator ISR, buffer manager and     *)
(* the DCC packet to bit-stream encoder.                                   *)
(***************************************************************************)
EXTENDS Integers, Sequences, FiniteSets, TLC

(***************************************************************************)
(* Sizes.  The firmware is built for 2 or 6 drivers, 10 compounded         *)
(* averages and a 10 bit ADC; the model keeps the code and scales the      *)
(* sizes so that every branch of the monitor is reached.                   *)
(***************************************************************************)
SHIELD_OUTPUT_DRIVERS == 3
COMPOUNDED_VALUES == 4
SPIKE_AVERAGE_VALUE == 1
SHORT_AVERAGE_VALUE == 2
AdcHigh == 6
MaxNow == 4

\* The time up to which the clock runs where a grace period is all that has
\* to pass.
MaxNowShort == 2

\* The number of host commands in a behaviour.
MaxCommands == 3

\* The number of commands the host sends where every interrupt is a step.
MaxSignalCommands == 2

\* Tunable constants (Constants.h, held in EEPROM and adjustable at run
\* time), set here to values on the scale of the modelled ADC range.
INSTANT_CURRENT_LIMIT == 2
AVERAGE_CURRENT_LIMIT == 1
MINIMUM_DELTA_AMPS == 0
POWER_GRACE_PERIOD == 1
DRIVER_PHASE_PERIOD == 1
DRIVER_RESET_PERIOD == 2

NULL == -1

\* no command in hand
NoCommand == [ op |-> "none" ]

Districts == 0 .. (SHIELD_OUTPUT_DRIVERS - 1)

\* shield_output[ i ].main: every driver is an operating track district
\* except the last, which is the programming track.
shield_main(i) == i < SHIELD_OUTPUT_DRIVERS - 1

VARIABLES
    now,                    \* main loop copy of millis()
    global_power_state,     \* GLOBAL_POWER_OFF / _MAIN / _PROG
    status,                 \* output_load[ d ].status
    recheck,                \* output_load[ d ].recheck
    compound_value,         \* output_load[ d ].compound_value[]
    flip_lock,              \* the phase flipping lock: a district or NULL
    output_index,           \* the district whose reading is analysed next
    output_phase,           \* output_phase[]
    output_pins,            \* number of pins driven by the ISR
    enabled,                \* the enable pin of each driver
    confirmation_enabled,
    load_confirmed,
    last_error,             \* error logged by the last step (or "NONE")
    reported                \* last step called report_driver_status()

power_vars == << now, global_power_state, status, recheck, compound_value,
                 flip_lock, output_index, output_phase, output_pins, enabled,
                 confirmation_enabled, load_confirmed, last_error, reported >>

ZeroLoad == [c \in 0 .. (COMPOUNDED_VALUES - 1) |-> 0]

\* init_driver_load() and the static initialisers.
init_driver_load ==
    /\ output_index = 0
    /\ compound_value = [d \in Districts |-> ZeroLoad]
    /\ status = [d \in Districts |-> "DISABLED"]
    /\ recheck = [d \in Districts |-> 0]
    /\ flip_lock = NULL
    /\ global_power_state = "OFF"
    /\ output_phase = [d \in Districts |-> FALSE]
    /\ output_pins = 0
    /\ enabled = [d \in Districts |-> FALSE]
    /\ confirmation_enabled = FALSE
    /\ load_confirmed = FALSE
    /\ now = 0
    /\ last_error = "NONE"
    /\ reported = FALSE

(***************************************************************************)
(* monitor_current_load(): the compounded averages.                        *)
(***************************************************************************)
RECURSIVE Compound(_, _, _, _)
Compound(cv, amps, i, n) ==
    IF i >= n THEN cv
    ELSE LET v == (amps + cv[i]) \div 2
         IN  Compound([cv EXCEPT ![i] = v], v, i + 1, n)

\* The value left in amps after the averaging loop.
RECURSIVE CompoundAmps(_, _, _, _)
CompoundAmps(cv, amps, i, n) ==
    IF i >= n THEN amps
    ELSE CompoundAmps(cv, (amps + cv[i]) \div 2, i + 1, n)

\* every average compounded whether a confirmation is awaited or not
UpdateAveragesAll(cv, amps, confirming) ==
    Compound(cv, amps, 0, COMPOUNDED_VALUES)

UpdateAverages(cv, amps, confirming) ==
    IF confirming THEN Compound(cv, amps, 0, SHORT_AVERAGE_VALUE + 1)
    ELSE Compound(cv, amps, 0, COMPOUNDED_VALUES)

\* The state of one district together with the shared lock, as the body of
\* monitor_current_load() reads and writes it.
Driver(d) ==
    [ cv |-> compound_value[d], status |-> status[d], recheck |-> recheck[d],
      lock |-> flip_lock, phase |-> output_phase[d], enable |-> enabled[d],
      confirmed |-> load_confirmed, err |-> "NONE", rep |-> FALSE ]

\* if( flip_lock ): another district holds the phase flipping lock
LockHeldNever(r) == FALSE

LockHeld(r) == r.lock # NULL

\* a phase left as it was
InvertNot(p) == p

\* output_phase[ output_index ] ^= true
Invert(p) == ~p

\* a deadline taken as passed at the moment it is reached
ElapsedAt(r) == now >= r.recheck

\* if( now > dp->recheck )
Elapsed(r) == now > r.recheck

\* Spike column of the state table.
SpikeCase(d, r) ==
    CASE r.status = "ON" ->
            IF LockHeld(r)
            THEN [r EXCEPT !.status = "BLOCKED",
                           !.recheck = now + DRIVER_PHASE_PERIOD,
                           !.err = "POWER_SPIKE"]
            ELSE [r EXCEPT !.phase = Invert(r.phase),
                           !.lock = d,
                           !.status = "FLIPPED",
                           !.recheck = now + DRIVER_PHASE_PERIOD,
                           !.err = "POWER_SPIKE"]
      [] r.status = "FLIPPED" ->
            IF Elapsed(r)
            THEN [r EXCEPT !.enable = FALSE,
                           !.cv = ZeroLoad,
                           !.lock = NULL,
                           !.status = "OFF",
                           !.recheck = now + DRIVER_RESET_PERIOD,
                           !.rep = TRUE]
            ELSE r
      [] r.status = "BLOCKED" ->
            IF LockHeld(r)
            THEN IF Elapsed(r)
                 THEN [r EXCEPT !.enable = FALSE,
                                !.cv = ZeroLoad,
                                !.status = "OFF",
                                !.recheck = now + DRIVER_RESET_PERIOD,
                                !.rep = TRUE]
                 ELSE r
            ELSE [r EXCEPT !.phase = Invert(r.phase),
                           !.lock = d,
                           !.status = "FLIPPED",
                           !.rep = TRUE]
      [] OTHER -> [r EXCEPT !.enable = FALSE]

\* an overload that leaves the lock as it finds it
OverloadCaseKeepLock(d, r, amps) ==
    IF r.status \in {"DISABLED", "OFF"}
    THEN [r EXCEPT !.enable = FALSE]
    ELSE [r EXCEPT !.enable = FALSE,
                   !.cv = ZeroLoad,
                   !.status = "OFF",
                   !.recheck = now + DRIVER_RESET_PERIOD,
                   !.err = "POWER_OVERLOAD",
                   !.rep = TRUE]

\* Overloaded column of the state table.
OverloadCase(d, r, amps) ==
    IF r.status \in {"DISABLED", "OFF"}
    THEN [r EXCEPT !.enable = FALSE]
    ELSE [r EXCEPT !.enable = FALSE,
                   !.cv = ZeroLoad,
                   !.lock = IF r.lock = d THEN NULL ELSE r.lock,
                   !.status = "OFF",
                   !.recheck = now + DRIVER_RESET_PERIOD,
                   !.err = "POWER_OVERLOAD",
                   !.rep = TRUE]

\* Normal column of the state table, with the confirmation test.
NominalCase(d, r) ==
    LET a == r.cv[SHORT_AVERAGE_VALUE]
        b == r.cv[COMPOUNDED_VALUES - 1]
        c == r.confirmed \/ (a > b /\ (a - b) > MINIMUM_DELTA_AMPS)
        q == [r EXCEPT !.confirmed = c]
    IN  CASE q.status = "FLIPPED" ->
                [q EXCEPT !.lock = NULL,
                          !.status = "ON_GRACE",
                          !.recheck = now + POWER_GRACE_PERIOD,
                          !.rep = TRUE]
          [] q.status = "BLOCKED" ->
                [q EXCEPT !.status = "ON_GRACE",
                          !.recheck = now + POWER_GRACE_PERIOD,
                          !.rep = TRUE]
          [] q.status = "OFF" ->
                IF Elapsed(q)
                THEN [q EXCEPT !.enable = TRUE,
                               !.status = "ON_GRACE",
                               !.recheck = now + POWER_GRACE_PERIOD,
                               !.rep = TRUE]
                ELSE q
          [] OTHER -> q

\* The power on grace period.
GraceCase(d, r) ==
    IF Elapsed(r)
    THEN [r EXCEPT !.status = "ON", !.recheck = 0]
    ELSE r

IsSpike(cv) == cv[SPIKE_AVERAGE_VALUE] > INSTANT_CURRENT_LIMIT
IsOverload(cv) == cv[COMPOUNDED_VALUES - 1] > AVERAGE_CURRENT_LIMIT

MonitorResult(d, amps) ==
    LET r == Driver(d) IN
    IF r.status # "ON_GRACE"
    THEN LET cv == UpdateAverages(r.cv, amps, confirmation_enabled)
             a  == CompoundAmps(r.cv, amps, 0,
                        IF confirmation_enabled THEN SHORT_AVERAGE_VALUE + 1
                        ELSE COMPOUNDED_VALUES)
             q  == [r EXCEPT !.cv = cv]
         IN  IF IsSpike(cv) THEN SpikeCase(d, q)
             ELSE IF IsOverload(cv) THEN OverloadCase(d, q, a)
             ELSE NominalCase(d, q)
    ELSE GraceCase(d, r)

monitor_current_load(amps) ==
    \E d \in { output_index } : \E r \in { MonitorResult(d, amps) } :
        /\ compound_value' = [compound_value EXCEPT ![d] = r.cv]
        /\ status' = [status EXCEPT ![d] = r.status]
        /\ recheck' = [recheck EXCEPT ![d] = r.recheck]
        /\ flip_lock' = r.lock
        /\ output_phase' = [output_phase EXCEPT ![d] = r.phase]
        /\ enabled' = [enabled EXCEPT ![d] = r.enable]
        /\ load_confirmed' = r.confirmed
        /\ last_error' = r.err
        /\ reported' = r.rep
        /\ output_index' = IF output_index + 1 >= SHIELD_OUTPUT_DRIVERS
                           THEN 0 ELSE output_index + 1
        /\ UNCHANGED << now, global_power_state, output_pins,
                        confirmation_enabled >>

(***************************************************************************)
(* Power mode controller: power_on_main_track(), power_on_prog_track(),    *)
(* power_off_tracks().  Each leaves the flip lock as it finds it.          *)
(***************************************************************************)
\* The loop shared by power_on_main_track (onMain = TRUE) and
\* power_on_prog_track (onMain = FALSE).
power_on_track(onMain) ==
    /\ enabled' = [d \in Districts |-> shield_main(d) = onMain]
    /\ status' = [d \in Districts |->
                    IF shield_main(d) = onMain THEN "ON_GRACE" ELSE "DISABLED"]
    /\ recheck' = [d \in Districts |-> 0]
    /\ compound_value' = [d \in Districts |-> ZeroLoad]
    /\ output_pins' = Cardinality({d \in Districts : shield_main(d) = onMain})
    /\ output_phase' = [k \in Districts |->
                    IF k < Cardinality({d \in Districts : shield_main(d) = onMain})
                    THEN TRUE ELSE output_phase[k]]
    /\ reported' = TRUE
    /\ global_power_state' = IF onMain THEN "MAIN" ELSE "PROG"
    /\ UNCHANGED << flip_lock, output_index, now, confirmation_enabled,
                    load_confirmed >>

power_on_main_track == power_on_track(TRUE)

power_on_prog_track == power_on_track(FALSE)

power_off_tracks ==
    /\ output_pins' = 0
    /\ enabled' = [d \in Districts |-> FALSE]
    /\ compound_value' = [d \in Districts |-> ZeroLoad]
    /\ status' = [d \in Districts |-> "DISABLED"]
    /\ recheck' = [d \in Districts |-> 0]
    /\ reported' = TRUE
    /\ global_power_state' = "OFF"
    /\ UNCHANGED << flip_lock, output_index, output_phase, now,
                    confirmation_enabled, load_confirmed >>

(***************************************************************************)
(* Transmission buffers, pending packets and the signal generator.         *)
(***************************************************************************)
ACCESSORY_TRANS_BUFFERS == 1
MOBILE_TRANS_BUFFERS == 2
PROGRAMMING_BUFFERS == 1
ACCESSORY_BASE_BUFFER == 0
MOBILE_BASE_BUFFER == ACCESSORY_BASE_BUFFER + ACCESSORY_TRANS_BUFFERS
PROGRAMMING_BASE_BUFFER == MOBILE_BASE_BUFFER + MOBILE_TRANS_BUFFERS
TRANSMISSION_BUFFERS ==
    ACCESSORY_TRANS_BUFFERS + MOBILE_TRANS_BUFFERS + PROGRAMMING_BUFFERS
PENDING_PACKETS == TRANSMISSION_BUFFERS
BIT_TRANSITIONS == 36
MAXIMUM_BIT_ITERATIONS == 255
DCC_SHORT_PREAMBLE == 15
DCC_LONG_PREAMBLE == 20
CONFIRMATION_PAUSE == 52
MAXIMUM_SHORT_ADDRESS == 127
MINIMUM_CV_ADDRESS == 1

\* Tunable repeat counts (Constants.h).
TRANSIENT_COMMAND_REPEATS == 2
SERVICE_MODE_RESET_REPEATS == 1
SERVICE_MODE_COMMAND_REPEATS == 1

Slots == 0 .. (TRANSMISSION_BUFFERS - 1)
Recs == 0 .. (PENDING_PACKETS - 1)

TICKS_FOR_ONE == 4
TICKS_FOR_ZERO == 7

dcc_idle_packet == << DCC_SHORT_PREAMBLE, 1, 8, 10, 9, 0 >>
dcc_filler_data == << 1, 0 >>

VARIABLES
    state,                  \* circular_buffer[ s ].state
    target,                 \* circular_buffer[ s ].target
    duration,               \* circular_buffer[ s ].duration
    bits,                   \* circular_buffer[ s ].bits[]
    pending,                \* circular_buffer[ s ].pending
    reply,                  \* circular_buffer[ s ].reply
    next,                   \* circular_buffer[ s ].next
    packet,                 \* pending_dcc_packet[ r ]: the data fields
    packet_next,            \* pending_dcc_packet[ r ].next
    free_pending_packets,   \* head of the free record list
    current,                \* buffer the ISR is transmitting
    manage,                 \* buffer the manager looks at next
    bit_string,             \* ISR read pointer: stream and next cell
    one,                    \* ISR: sending ones (TRUE) or zeros
    left,                   \* ISR: length of the run being sent
    pc,                     \* where the main loop is
    buf,                    \* scan_line: the buffer found for the command
    cmd,                    \* scan_line: the command being processed
    last_cmd,               \* the command the last scan_line step acted on
    sent,                   \* history: host commands read so far
    encoded                 \* history: last complete stream packed per buffer

ring_vars == << state, target, duration, bits, pending, reply, next, packet,
                packet_next, free_pending_packets, current, manage,
                bit_string, one, left, pc, buf, cmd, last_cmd, sent,
                    encoded >>

(***************************************************************************)
(* The decoder function value cache.  The firmware sizes it as             *)
(* MOBILE_TRANS_BUFFERS; here the two are scaled apart.                    *)
(***************************************************************************)
FUNCTION_CACHE_RECS == 3
MaxTarget == 4
MaxFunction == 1

FuncRecs == 0 .. (FUNCTION_CACHE_RECS - 1)
Targets == 1 .. MaxTarget
Functions == 0 .. MaxFunction

\* the address of function_cache itself; the address of
\* function_rec[ r ].next is written r
AdrsOfHead == -2

VARIABLES
    function_cache,         \* head of the list of cache records
    fc_target,              \* function_rec[ r ].target
    fc_bits,                \* function_rec[ r ].bits, as the functions set
    fc_next,                \* function_rec[ r ].next
    fc_prev,                \* function_rec[ r ].prev: an address
    fc_used                 \* history: the targets asked for, latest first

cache_vars == << function_cache, fc_target, fc_bits, fc_next, fc_prev,
                 fc_used >>

(***************************************************************************)
(* The replies handed to the console: console.print( manage->contains ).   *)
(***************************************************************************)
VARIABLES
    replies,                \* history: the number of replies printed
    reply_text,             \* history: what the last one said
    acked                   \* history: load_confirmed was set since the arming

out_vars == << replies, reply_text, acked >>

(***************************************************************************)
(* The timer interrupt, one interrupt at a time: the half bit it counts    *)
(* down and the side of the signal it writes to the output port.           *)
(***************************************************************************)
VARIABLES
    remaining,              \* ticks before the next side transition
    reload,                 \* ticks of a half of the bit being sent
    side,                   \* which side of the signal comes next
    signal,                 \* the mask last written to the port
    held,                   \* history: interrupts since that write
    half                    \* history: ticks the first half of the bit took

signal_vars == << remaining, reload, side, signal, held, half >>

vars == << power_vars, ring_vars, cache_vars, out_vars, signal_vars >>

\* Bitwise exclusive or of two bytes.
\* F applied to the value of x, which is worked out once however often F
\* uses it.
Once(x, F(_)) == CHOOSE r \in { F(v) : v \in {x} } : TRUE

RECURSIVE Xor8(_, _, _)
Xor8(a, b, n) ==
    IF n = 0 THEN 0
    ELSE ((a + b) % 2) + 2 * Xor8(a \div 2, b \div 2, n - 1)

\* copy_with_parity(): the command followed by the XOR of its bytes.
RECURSIVE Parity(_, _)
Parity(src, i) ==
    IF i > Len(src) THEN 0
    ELSE Once(Parity(src, i + 1), LAMBDA p : Xor8(src[i], p, 8))

\* a copy closed by a byte that is not the parity
copy_with_zero(src) == Append(src, 0)

copy_with_parity(src) == Append(src, Parity(src, 1))

(***************************************************************************)
(* The DCC composition routines used by the modelled commands.             *)
(***************************************************************************)
EMERGENCY_STOP == -1

compose_motion_packet(adrs, speed, dir) ==
    LET head == IF adrs > MAXIMUM_SHORT_ADDRESS
                THEN << 192 + (adrs \div 256), adrs % 256 >>
                ELSE << adrs >>
        last == CASE speed = 0 -> dir * 128
                  [] speed = EMERGENCY_STOP -> dir * 128 + 1
                  [] OTHER -> dir * 128 + (speed + 1)
    IN  head \o << 63, last >>

compose_digital_reset == << 0, 0 >>

compose_set_cv(cv, value) ==
    LET c == cv - MINIMUM_CV_ADDRESS
    IN  << 124 + ((c \div 256) % 4), c % 256, value >>

(***************************************************************************)
(* pack_command(): bytes to run lengths.  st.buf is the bits[] array       *)
(* (cell i of the C array is st.buf[i + 1]), st.pos the write position,    *)
(* st.l, st.b and st.c the variables l, b and c of the routine.            *)
(***************************************************************************)
\* PackCount with no test of the count against MAXIMUM_BIT_ITERATIONS
PackCountWrap(st) == [st EXCEPT !.c = (st.c + 1) % 256]

PackCount(st) ==
    IF st.c = MAXIMUM_BIT_ITERATIONS
    THEN [st EXCEPT !.ok = FALSE]
    ELSE [st EXCEPT !.c = st.c + 1]

\* PackFlip with the count of the new run started at 0
PackFlipZero(st) ==
    IF st.l - 1 = 0
    THEN [st EXCEPT !.l = 0, !.ok = FALSE]
    ELSE [st EXCEPT !.l = st.l - 1,
                    !.buf = [st.buf EXCEPT ![st.pos + 1] = st.c],
                    !.pos = st.pos + 1,
                    !.c = 0,
                    !.b = 128 - st.b]

PackFlip(st) ==
    IF st.l - 1 = 0
    THEN [st EXCEPT !.l = 0, !.ok = FALSE]
    ELSE [st EXCEPT !.l = st.l - 1,
                    !.buf = [st.buf EXCEPT ![st.pos + 1] = st.c],
                    !.pos = st.pos + 1,
                    !.c = 1,
                    !.b = 128 - st.b]

PackBit(st, bit) ==
    Once(st, LAMBDA s :
        IF ~s.ok THEN s
        ELSE IF bit = s.b THEN PackCount(s) ELSE PackFlip(s))

\* The bits pack_command() looks at, in its order: for byte n of the
\* command the eight bits of v from the 0x80 end (bits 9n-8 .. 9n-1), then
\* the bit that follows the byte (bit 9n): "0" before another byte, "1" at
\* the end of the packet.  A bit is 0 or 0x80, as v & 0x80 is.
Pow2(k) == IF k = 0 THEN 1 ELSE IF k = 1 THEN 2 ELSE IF k = 2 THEN 4
           ELSE IF k = 3 THEN 8 ELSE IF k = 4 THEN 16 ELSE IF k = 5 THEN 32
           ELSE IF k = 6 THEN 64 ELSE 128

CommandBit(command, j) ==
    LET n == ((j - 1) \div 9) + 1
        k == (j - 1) % 9
    IN  IF k < 8 THEN ((command[n] \div Pow2(7 - k)) % 2) * 128
        ELSE IF n < Len(command) THEN 0 ELSE 128

\* The while( clen-- ) loop with its for( s = 0; s < 8; s++ ) loop inside:
\* bits lo .. hi taken one after the other.
RECURSIVE PackBits(_, _, _, _)
PackBits(st, command, lo, hi) ==
    IF lo > hi THEN st
    ELSE IF lo = hi THEN PackBit(st, CommandBit(command, lo))
    ELSE Once(PackBits(st, command, lo, (lo + hi) \div 2), LAMBDA m :
            PackBits(m, command, ((lo + hi) \div 2) + 1, hi))

\* PackTail without the write of the terminator
PackTailOpen(st, postamble) ==
    IF ~st.ok THEN st
    ELSE IF st.l - 2 <= 0 THEN [st EXCEPT !.l = 0, !.ok = FALSE]
    ELSE [st EXCEPT !.l = st.l - 2,
                    !.buf = [st.buf EXCEPT ![st.pos + 1] =
                                               (st.c + postamble) % 256],
                    !.pos = st.pos + 1]

PackTail(st, postamble) ==
    Once(st, LAMBDA s :
        IF ~s.ok THEN s
        ELSE IF s.l - 1 = 0 THEN [s EXCEPT !.l = 0, !.ok = FALSE]
        ELSE LET room == MAXIMUM_BIT_ITERATIONS - s.c
                 post == IF room < postamble THEN room ELSE postamble
                 c    == (s.c + post) % 256
             IN  IF s.l - 2 = 0
                 THEN [s EXCEPT !.l = 0, !.ok = FALSE, !.c = c,
                                !.buf = [s.buf EXCEPT ![s.pos + 1] = c],
                                !.pos = s.pos + 1]
                 ELSE [s EXCEPT !.l = s.l - 2, !.c = c,
                                !.buf = [[s.buf EXCEPT ![s.pos + 1] = c]
                                            EXCEPT ![s.pos + 2] = 0],
                                !.pos = s.pos + 1])

pack_command(command, preamble, postamble, old) ==
    PackTail(
        PackBits([ buf |-> [old EXCEPT ![1] = preamble], pos |-> 1,
                   l |-> BIT_TRANSITIONS - 1, b |-> 0, c |-> 1, ok |-> TRUE ],
                 command, 1, 9 * Len(command)),
        postamble)

\* a record that holds no packet
EmptyPacket ==
    [ target |-> 0, preamble |-> 0, postamble |-> 0, duration |-> 0,
      command |-> << >> ]

(***************************************************************************)
(* Pending packet records.  A heap is the free list head, the next links,  *)
(* the record data and the pending pointer of the buffer being worked on.  *)
(***************************************************************************)
Heap(s) ==
    [ free |-> free_pending_packets, nxt |-> packet_next, data |-> packet,
      head |-> pending[s] ]

\* create_pending_rec(): tail is NULL while the list is empty (the tail
\* pointer addresses buf->pending), else the last record linked.
create_pending_rec(hp, tail, rec) ==
    Once(hp, LAMBDA h :
        IF h.free = NULL
        THEN [ ok |-> FALSE, heap |-> h, tail |-> tail ]
        ELSE LET ptr == h.free
                 h1  == [h EXCEPT !.free = h.nxt[ptr],
                                  !.data = [h.data EXCEPT ![ptr] =
                                      [rec EXCEPT !.command =
                                          copy_with_parity(rec.command)]]]
                 h2  == IF tail = NULL
                        THEN [h1 EXCEPT !.head = ptr]
                        ELSE [h1 EXCEPT !.nxt = [h1.nxt EXCEPT ![tail] = ptr]]
             IN  [ ok |-> TRUE,
                   heap |-> [h2 EXCEPT !.nxt = [h2.nxt EXCEPT ![ptr] = NULL]],
                   tail |-> ptr ])

\* release_pending_recs(): one record or the whole list back to the free
\* list; hp.head is the routine's result.  The bytes of a record on the
\* free list are never read: create_pending_rec() writes every field before
\* the record is linked again, so the model keeps no contents for a free
\* record.
ReleaseLeak(hp) ==
    [hp EXCEPT !.head = hp.nxt[hp.head],
               !.data = [hp.data EXCEPT ![hp.head] = EmptyPacket]]

\* head = ptr->next; ptr->next = free_pending_packets;
\* free_pending_packets = ptr
Release(hp) ==
    [hp EXCEPT !.head = hp.nxt[hp.head],
               !.nxt = [hp.nxt EXCEPT ![hp.head] = hp.free],
               !.data = [hp.data EXCEPT ![hp.head] = EmptyPacket],
               !.free = hp.head]

RECURSIVE release_pending_recs(_, _)
release_pending_recs(hp, onlyOne) ==
    Once(hp, LAMBDA h :
        IF h.head = NULL THEN h
        ELSE IF onlyOne THEN Release(h)
        ELSE release_pending_recs(Release(h), FALSE))

\* The records of a command, created one after the other; a failed call
\* leaves the list as it is and the later calls fail too.
RECURSIVE CreateAll(_, _, _, _)
CreateAll(hp, tail, recs, i) ==
    IF i > Len(recs) THEN [ ok |-> TRUE, heap |-> hp ]
    ELSE Once(create_pending_rec(hp, tail, recs[i]), LAMBDA r :
            Once(CreateAll(r.heap, r.tail, recs, i + 1), LAMBDA rest :
                [ ok |-> r.ok /\ rest.ok, heap |-> rest.heap ]))

(***************************************************************************)
(* find_available_buffer()                                                 *)
(***************************************************************************)
RECURSIVE FindTarget(_, _, _, _)
FindTarget(base, count, t, i) ==
    IF i >= count THEN NULL
    ELSE IF target[base + i] = t THEN base + i
    ELSE FindTarget(base, count, t, i + 1)

RECURSIVE FindEmpty(_, _, _)
FindEmpty(base, count, i) ==
    IF i >= count THEN NULL
    ELSE IF state[base + i] = "EMPTY" THEN base + i
    ELSE FindEmpty(base, count, i + 1)

find_first_empty(base, count, t) == FindEmpty(base, count, 0)

find_available_buffer(base, count, t) ==
    IF FindTarget(base, count, t, 0) # NULL
    THEN FindTarget(base, count, t, 0)
    ELSE FindEmpty(base, count, 0)

(***************************************************************************)
(* The function cache routines.  A cache value cs holds the head and the   *)
(* fields of the records.                                                  *)
(***************************************************************************)
Cache ==
    [ head |-> function_cache, target |-> fc_target, bits |-> fc_bits,
      next |-> fc_next, prev |-> fc_prev ]

\* *adrs = val
Store(cs, adrs, val) ==
    IF adrs = AdrsOfHead THEN [cs EXCEPT !.head = val]
    ELSE [cs EXCEPT !.next[adrs] = val]

init_function_cache ==
    /\ function_cache = 0
    /\ fc_target = [r \in FuncRecs |-> 0]
    /\ fc_bits = [r \in FuncRecs |-> {}]
    /\ fc_next = [r \in FuncRecs |->
                    IF r = FUNCTION_CACHE_RECS - 1 THEN NULL ELSE r + 1]
    /\ fc_prev = [r \in FuncRecs |-> IF r = 0 THEN AdrsOfHead ELSE r - 1]
    /\ fc_used = << >>

\* the while loop of find_func_cache(): the record of the tgt if one is
\* met, with the last record seen
RECURSIVE Search(_, _, _, _)
Search(cs, tgt, ptr, last) ==
    IF ptr = NULL THEN [ ptr |-> NULL, last |-> last ]
    ELSE IF cs.target[ptr] = tgt THEN [ ptr |-> ptr, last |-> last ]
    ELSE Search(cs, tgt, cs.next[ptr], ptr)

\* Detach that leaves the record behind ptr pointing back at ptr
DetachOneWay(cs, ptr) == Store(cs, cs.prev[ptr], cs.next[ptr])

\* detach ptr from the list
Detach(cs, ptr) ==
    LET c1 == Store(cs, cs.prev[ptr], cs.next[ptr])
    IN  IF cs.next[ptr] # NULL
        THEN [c1 EXCEPT !.prev[cs.next[ptr]] = cs.prev[ptr]]
        ELSE c1

\* AddToHead that forgets to move the head
AddBehindHead(cs, ptr) ==
    [cs EXCEPT !.next[ptr] = cs.head,
               !.prev[cs.head] = ptr,
               !.prev[ptr] = AdrsOfHead]

\* add ptr to the head of the list
AddToHead(cs, ptr) ==
    [cs EXCEPT !.next[ptr] = cs.head,
               !.prev[cs.head] = ptr,
               !.prev[ptr] = AdrsOfHead,
               !.head = ptr]

\* the record found is moved to the top of the list
Hit(cs, ptr) ==
    IF cs.head # ptr THEN AddToHead(Detach(cs, ptr), ptr) ELSE cs

\* nothing found: the oldest record, the last of the list, is re-used
Miss(cs, tgt, last) ==
    LET c1 == Store(cs, cs.prev[last], NULL)
        c2 == [c1 EXCEPT !.target[last] = tgt, !.bits[last] = {}]
    IN  AddToHead(c2, last)

find_func_cache(cs, tgt) ==
    LET f == Search(cs, tgt, cs.head, NULL)
    IN  IF f.ptr # NULL
        THEN [ cache |-> Hit(cs, f.ptr), ptr |-> f.ptr ]
        ELSE [ cache |-> Miss(cs, tgt, f.last), ptr |-> f.last ]

\* the targets asked for, the latest first
Touch(used, tgt) ==
    << tgt >> \o SelectSeq(used, LAMBDA t : t # tgt)

SetCache(cs) ==
    /\ function_cache' = cs.head
    /\ fc_target' = cs.target
    /\ fc_bits' = cs.bits
    /\ fc_next' = cs.next
    /\ fc_prev' = cs.prev

\* update_function() as compose_function_change() calls it: the cache
\* it leaves, the record of the target and whether the bit changed
UpdateFunction(cs, tgt, func, on) ==
    LET f == find_func_cache(cs, tgt)
    IN  [ cache |-> [f.cache EXCEPT !.bits[f.ptr] =
                        IF on THEN @ \cup {func} ELSE @ \ {func}],
          ptr |-> f.ptr,
          changed |-> ((func \in f.cache.bits[f.ptr]) # on) ]

\* get_function( adrs, func, val ) | ... over the functions of one byte
RECURSIVE GetFunctions(_, _, _)
GetFunctions(fb, fs, i) ==
    IF i > Len(fs) THEN 0
    ELSE (IF fs[i][1] \in fb THEN fs[i][2] ELSE 0)
         + GetFunctions(fb, fs, i + 1)

FunctionBytes(fb, func) ==
    IF func <= 4
    THEN << 128 + GetFunctions(fb, << <<0, 16>>, <<1, 1>>, <<2, 2>>,
                                         <<3, 4>>, <<4, 8>> >>, 1) >>
    ELSE IF func <= 8
    THEN << 176 + GetFunctions(fb, << <<5, 1>>, <<6, 2>>, <<7, 4>>,
                                         <<8, 8>> >>, 1) >>
    ELSE IF func <= 12
    THEN << 160 + GetFunctions(fb, << <<9, 1>>, <<10, 2>>, <<11, 4>>,
                                         <<12, 8>> >>, 1) >>
    ELSE IF func <= 20
    THEN << 222, GetFunctions(fb, [k \in 1 .. 8 |-> << 12 + k, 2 ^ (k - 1) >>],
                              1) >>
    ELSE << 223, GetFunctions(fb, [k \in 1 .. 8 |-> << 20 + k, 2 ^ (k - 1) >>],
                              1) >>

\* compose_function_change(): the function packet when the function has
\* changed, an idle packet when it has not; the cache is updated either way
compose_function_change(cs, adrs, func, on) ==
    LET u == UpdateFunction(cs, adrs, func, on)
        g == find_func_cache(u.cache, adrs)
    IN  IF u.changed
        THEN [ cache |-> g.cache,
               command |->
                   (IF adrs > MAXIMUM_SHORT_ADDRESS
                    THEN << 192 + (adrs \div 256), adrs % 256 >>
                    ELSE << adrs >>)
                   \o FunctionBytes(g.cache.bits[g.ptr], func) ]
        ELSE [ cache |-> u.cache, command |-> << 255, 0 >> ]

\* update_function( tgt, func, state )
update_function(tgt, func, on) ==
    /\ pc = "loop"
    /\ \E f \in { find_func_cache(Cache, tgt) } :
           SetCache([f.cache EXCEPT !.bits[f.ptr] =
                        IF on THEN @ \cup {func} ELSE @ \ {func}])
    /\ fc_used' = Touch(fc_used, tgt)
    /\ UNCHANGED << power_vars, ring_vars, out_vars, signal_vars >>

\* get_function( tgt, func, val )
get_function(tgt, func) ==
    /\ pc = "loop"
    /\ \E f \in { find_func_cache(Cache, tgt) } : SetCache(f.cache)
    /\ fc_used' = Touch(fc_used, tgt)
    /\ UNCHANGED << power_vars, ring_vars, out_vars, signal_vars >>

NextCache ==
    \/ \E t \in Targets : \E f \in Functions : \E on \in BOOLEAN :
           update_function(t, f, on)
    \/ \E t \in Targets : \E f \in Functions : get_function(t, f)

(***************************************************************************)
(* Initial configuration: link_buffer_chain() and                          *)
(* initialise_data_structures().                                           *)
(***************************************************************************)
EmptyBits == [i \in 1 .. BIT_TRANSITIONS |-> 0]

link_buffer_chain ==
    /\ state = [s \in Slots |-> "EMPTY"]
    /\ target = [s \in Slots |-> 0]
    /\ duration = [s \in Slots |-> 0]
    /\ bits = [s \in Slots |-> EmptyBits]
    /\ pending = [s \in Slots |-> NULL]
    /\ reply = [s \in Slots |-> "NO_REPLY_REQUIRED"]
    /\ next = [s \in Slots |->
                IF s = TRANSMISSION_BUFFERS - 1 THEN 0 ELSE s + 1]

initialise_data_structures ==
    /\ link_buffer_chain
    /\ packet = [r \in Recs |-> EmptyPacket]
    /\ packet_next = [r \in Recs |-> IF r = 0 THEN NULL ELSE r - 1]
    /\ free_pending_packets = PENDING_PACKETS - 1
    /\ current = 0
    /\ bit_string = [kind |-> "idle", slot |-> NULL, idx |-> 2]
    /\ one = TRUE
    /\ left = dcc_idle_packet[1]
    /\ side = TRUE
    /\ remaining = 1
    /\ reload = TICKS_FOR_ONE
    /\ signal = "none"
    /\ held = 0
    /\ half = 0
    /\ manage = 0
    /\ buf = NULL
    /\ last_cmd = NoCommand
    /\ sent = 0
    /\ encoded = [s \in Slots |-> EmptyBits]
    /\ replies = 0
    /\ reply_text = ""
    /\ acked = FALSE

\* setup(): the main loop starts with no command in hand.
Init ==
    /\ init_driver_load
    /\ init_function_cache
    /\ initialise_data_structures
    /\ pc = "loop"
    /\ cmd = NoCommand

\* link_main_buffers() and link_prog_buffers(), each done with interrupts
\* disabled.
link_main_buffers_tail ==
    next' = [next EXCEPT ![TRANSMISSION_BUFFERS - 1] = 0]

link_main_buffers ==
    next' = [next EXCEPT ![PROGRAMMING_BASE_BUFFER - 1] = 0,
                         ![TRANSMISSION_BUFFERS - 1] = 0]

link_prog_buffers_half ==
    next' = [next EXCEPT ![PROGRAMMING_BASE_BUFFER - 1] = PROGRAMMING_BASE_BUFFER]

link_prog_buffers ==
    next' = [next EXCEPT ![PROGRAMMING_BASE_BUFFER - 1] = PROGRAMMING_BASE_BUFFER,
                         ![TRANSMISSION_BUFFERS - 1] = PROGRAMMING_BASE_BUFFER]

\* Every ring variable but last_cmd.
ring_rest == << state, target, duration, bits, pending, reply, next, packet,
                packet_next, free_pending_packets, current, manage,
                bit_string, one, left, pc, buf, cmd, sent,
                    encoded >>

\* Everything the ISR leaves alone.
main_only == << power_vars, target, bits, pending, reply, next, packet,
                packet_next, free_pending_packets, manage, pc, buf, cmd,
                last_cmd, sent,
                    encoded >>

(***************************************************************************)
(* loop(): the steps of the main loop.                                     *)
(***************************************************************************)
\* now = millis()
Tick ==
    /\ pc = "loop"
    /\ now < MaxNow
    /\ now' = now + 1
    /\ last_error' = "NONE"
    /\ reported' = FALSE
    /\ last_cmd' = NoCommand
    /\ UNCHANGED << global_power_state, status, recheck, compound_value,
                    flip_lock, output_index, output_phase, output_pins,
                    enabled, confirmation_enabled, load_confirmed >>
    /\ UNCHANGED ring_rest
    /\ UNCHANGED cache_vars
    /\ UNCHANGED signal_vars
    /\ UNCHANGED out_vars

\* The readings of the ADC: a district whose driver is disabled carries no
\* current.
Samples(d) == IF enabled[d] THEN {0, AdcHigh} ELSE {0}

\* if( reading_is_ready ) monitor_current_load( track_load_reading )
Monitor ==
    /\ pc = "loop"
    /\ \E amps \in Samples(output_index) : monitor_current_load(amps)
    /\ last_cmd' = NoCommand
    /\ acked' = (acked \/ (load_confirmed' /\ ~load_confirmed))
    /\ UNCHANGED ring_rest
    /\ UNCHANGED cache_vars
    /\ UNCHANGED signal_vars
    /\ UNCHANGED << replies, reply_text >>

(***************************************************************************)
(* scan_line(): [P STATE]                                                  *)
(***************************************************************************)
\* if( global_power_state != GLOBAL_POWER_OFF )
PowerRefusedSame(m) == global_power_state = (IF m = 1 THEN "MAIN" ELSE "PROG")

PowerRefused(m) == global_power_state # "OFF"

ScanPower(m) ==
    /\ pc = "loop"
    /\ sent < MaxCommands
    /\ sent' = sent + 1
    /\ UNCHANGED encoded
    /\ last_cmd' = [op |-> "P", arg |-> m]
    /\ CASE m = 0 ->
              /\ power_off_tracks
              /\ last_error' = "NONE"
              /\ UNCHANGED next
         [] m = 1 ->
              IF PowerRefused(m)
              THEN /\ last_error' = "POWER_NOT_OFF"
                   /\ reported' = FALSE
                   /\ UNCHANGED << now, global_power_state, status, recheck,
                                   compound_value, flip_lock, output_index,
                                   output_phase, output_pins, enabled,
                                   confirmation_enabled, load_confirmed, next >>
              ELSE /\ power_on_main_track
                   /\ last_error' = "NONE"
                   /\ IF global_power_state # "MAIN"
                      THEN link_main_buffers ELSE UNCHANGED next
         [] m = 2 ->
              IF PowerRefused(m)
              THEN /\ last_error' = "POWER_NOT_OFF"
                   /\ reported' = FALSE
                   /\ UNCHANGED << now, global_power_state, status, recheck,
                                   compound_value, flip_lock, output_index,
                                   output_phase, output_pins, enabled,
                                   confirmation_enabled, load_confirmed, next >>
              ELSE /\ power_on_prog_track
                   /\ last_error' = "NONE"
                   /\ IF global_power_state # "PROG"
                      THEN link_prog_buffers ELSE UNCHANGED next
    /\ UNCHANGED << state, target, duration, bits, pending, reply, packet,
                    packet_next, free_pending_packets, current, manage,
                    bit_string, one, left, pc, buf, cmd >>
    /\ UNCHANGED cache_vars
    /\ UNCHANGED signal_vars
    /\ UNCHANGED out_vars

(***************************************************************************)
(* scan_line(): commands that queue packets.  [M ADRS SPEED DIR] and       *)
(* [S CV VALUE] share their three steps: find a buffer and drain its       *)
(* pending list, create the pending records, then set reply and state.     *)
(***************************************************************************)
Rec(t, d, pre, post, command) ==
    [ target |-> t, duration |-> d, preamble |-> pre, postamble |-> post,
      command |-> command ]

MobileCommand(adrs, speed, dir) ==
    [ op |-> "M", arg |-> << adrs, speed, dir >>,
      base |-> MOBILE_BASE_BUFFER, count |-> MOBILE_TRANS_BUFFERS,
      target |-> adrs,
      recs |-> << Rec(adrs,
                      IF speed = EMERGENCY_STOP \/ speed = 0
                      THEN TRANSIENT_COMMAND_REPEATS ELSE 0,
                      DCC_SHORT_PREAMBLE, 1,
                      compose_motion_packet(adrs, speed, dir)) >>,
      reply |-> "REPLY_ON_SEND", confirm |-> FALSE ]

\* the 'S' command with the write packet queued once only
SetCVCommandOneWrite(cv, value) ==
    [ op |-> "S", arg |-> << cv, value >>,
      base |-> PROGRAMMING_BASE_BUFFER, count |-> PROGRAMMING_BUFFERS,
      target |-> 0,
      recs |-> << Rec(0, SERVICE_MODE_RESET_REPEATS, DCC_LONG_PREAMBLE, 1,
                      compose_digital_reset),
                  Rec(0, SERVICE_MODE_COMMAND_REPEATS, DCC_LONG_PREAMBLE,
                      CONFIRMATION_PAUSE, compose_set_cv(cv, value)),
                  Rec(0, SERVICE_MODE_RESET_REPEATS, DCC_LONG_PREAMBLE, 1,
                      compose_digital_reset) >>,
      reply |-> "REPLY_ON_CONFIRM", confirm |-> TRUE ]

SetCVCommand(cv, value) ==
    [ op |-> "S", arg |-> << cv, value >>,
      base |-> PROGRAMMING_BASE_BUFFER, count |-> PROGRAMMING_BUFFERS,
      target |-> 0,
      recs |-> << Rec(0, SERVICE_MODE_RESET_REPEATS, DCC_LONG_PREAMBLE, 1,
                      compose_digital_reset),
                  Rec(0, SERVICE_MODE_COMMAND_REPEATS, DCC_LONG_PREAMBLE,
                      CONFIRMATION_PAUSE, compose_set_cv(cv, value)),
                  Rec(0, SERVICE_MODE_COMMAND_REPEATS, DCC_LONG_PREAMBLE,
                      CONFIRMATION_PAUSE, compose_set_cv(cv, value)),
                  Rec(0, SERVICE_MODE_RESET_REPEATS, DCC_LONG_PREAMBLE, 1,
                      compose_digital_reset) >>,
      reply |-> "REPLY_ON_CONFIRM", confirm |-> TRUE ]

FUNCTION_OFF == 0
FUNCTION_ON == 1
FUNCTION_TOGGLE == 2

\* the 'F' command: its packets are composed when they are queued
FunctionCommand(adrs, func, st) ==
    [ op |-> "F", arg |-> << adrs, func, st >>,
      base |-> ACCESSORY_BASE_BUFFER, count |-> ACCESSORY_TRANS_BUFFERS,
      target |-> adrs, recs |-> << >>,
      reply |-> "REPLY_ON_SEND", confirm |-> FALSE ]

\* the packets of a command and the function cache once they are composed:
\* a toggle is the function on and then off
Composed(c, cs) ==
    IF c.op # "F" THEN [ cache |-> cs, recs |-> c.recs ]
    ELSE IF c.arg[3] = FUNCTION_TOGGLE
    THEN LET a == compose_function_change(cs, c.arg[1], c.arg[2], TRUE)
             b == compose_function_change(a.cache, c.arg[1], c.arg[2], FALSE)
         IN  [ cache |-> b.cache,
               recs |-> << Rec(c.arg[1], TRANSIENT_COMMAND_REPEATS,
                               DCC_SHORT_PREAMBLE, 1, a.command),
                           Rec(c.arg[1], TRANSIENT_COMMAND_REPEATS,
                               DCC_SHORT_PREAMBLE, 1, b.command) >> ]
    ELSE LET a == compose_function_change(cs, c.arg[1], c.arg[2],
                                          c.arg[3] = FUNCTION_ON)
         IN  [ cache |-> a.cache,
               recs |-> << Rec(c.arg[1], TRANSIENT_COMMAND_REPEATS,
                               DCC_SHORT_PREAMBLE, 1, a.command) >> ]

\* the commands whose handler releases what it queued when the pool gives out
ReleasesOnFailure(c) ==
    c.op = "S" \/ (c.op = "F" /\ c.arg[3] = FUNCTION_TOGGLE)

\* The commands the host sends in the model.
HostCommands ==
    { MobileCommand(1, 0, 1), MobileCommand(5461, 20, 1), SetCVCommand(1, 0) }

ScanFind(c) ==
    /\ pc = "loop"
    /\ sent < MaxCommands
    /\ sent' = sent + 1
    /\ UNCHANGED encoded
    /\ last_cmd' = c
    /\ reported' = FALSE
    /\ LET b == find_available_buffer(c.base, c.count, c.target) IN
       IF b = NULL
       THEN /\ last_error' = "TRANSMISSION_BUSY"
            /\ UNCHANGED << pending, packet, packet_next,
                            free_pending_packets, pc, buf, cmd >>
       ELSE \E hp \in { release_pending_recs(Heap(b), FALSE) } :
            /\ pending' = [pending EXCEPT ![b] = hp.head]
            /\ packet' = hp.data
            /\ packet_next' = hp.nxt
            /\ free_pending_packets' = hp.free
            /\ buf' = b
            /\ cmd' = c
            /\ pc' = "create"
            /\ last_error' = "NONE"
    /\ UNCHANGED << now, global_power_state, status, recheck, compound_value,
                    flip_lock, output_index, output_phase, output_pins,
                    enabled, confirmation_enabled, load_confirmed >>
    /\ UNCHANGED << state, target, duration, bits, reply, next, current,
                    manage, bit_string, one, left >>
    /\ UNCHANGED cache_vars
    /\ UNCHANGED signal_vars
    /\ UNCHANGED out_vars

ScanCreate ==
    /\ pc = "create"
    /\ reported' = FALSE
    /\ \E cp \in { Composed(cmd, Cache) } :
       \E r \in { CreateAll(Heap(buf), NULL, cp.recs, 1) } :
       \E hp \in { IF r.ok \/ ~ReleasesOnFailure(cmd) THEN r.heap
                   ELSE release_pending_recs(r.heap, FALSE) } :
           /\ SetCache(cp.cache)
           /\ pending' = [pending EXCEPT ![buf] = hp.head]
           /\ packet_next' = hp.nxt
           /\ packet' = hp.data
           /\ free_pending_packets' = hp.free
           /\ IF r.ok
              THEN /\ pc' = "commit"
                   /\ last_error' = "NONE"
                   /\ UNCHANGED << buf, cmd >>
              ELSE /\ pc' = "loop"
                   /\ last_error' = "COMMAND_QUEUE_FAILED"
                   /\ buf' = NULL
                   /\ cmd' = NoCommand
    /\ UNCHANGED << now, global_power_state, status, recheck, compound_value,
                    flip_lock, output_index, output_phase, output_pins,
                    enabled, confirmation_enabled, load_confirmed >>
    /\ UNCHANGED << state, target, duration, bits, reply, next, current,
                    manage, bit_string, one, left, last_cmd, sent,
                    encoded >>
    /\ fc_used' = IF cmd.op = "F" THEN Touch(fc_used, cmd.target)
                            ELSE fc_used
    /\ UNCHANGED out_vars
    /\ UNCHANGED signal_vars

\* buf->state = ( buf->state == TBS_EMPTY )? TBS_LOAD: TBS_RELOAD
SubmitStateDirect(st) == "LOAD"

SubmitState(st) == IF st = "EMPTY" THEN "LOAD" ELSE "RELOAD"

\* load_confirmed = false, in the commands that arm the confirmation
ArmLatchKept(confirm, latched) == latched

ArmLatch(confirm, latched) == ~confirm /\ latched

ScanCommit ==
    /\ pc = "commit"
    /\ reported' = FALSE
    /\ last_error' = "NONE"
    /\ confirmation_enabled' = (cmd.confirm \/ confirmation_enabled)
    /\ load_confirmed' = ArmLatch(cmd.confirm, load_confirmed)
    /\ acked' = (~cmd.confirm /\ acked)
    /\ reply' = [reply EXCEPT ![buf] = cmd.reply]
    /\ state' = [state EXCEPT ![buf] = SubmitState(state[buf])]
    /\ pc' = "loop"
    /\ buf' = NULL
    /\ cmd' = NoCommand
    /\ UNCHANGED << now, global_power_state, status, recheck, compound_value,
                    flip_lock, output_index, output_phase, output_pins,
                    enabled >>
    /\ UNCHANGED << target, duration, bits, pending, next, packet,
                    packet_next, free_pending_packets, current, manage,
                    bit_string, one, left, last_cmd, sent,
                    encoded >>
    /\ UNCHANGED cache_vars
    /\ UNCHANGED signal_vars
    /\ UNCHANGED << replies, reply_text >>

(***************************************************************************)
(* management_service_routine(), in the order of its writes: the encoding  *)
(* with target and duration, then the state, then the pending list and     *)
(* the reply.  The timer interrupt can fall between any two of them.       *)
(***************************************************************************)
power_but_error == << now, global_power_state, status, recheck,
                      compound_value, flip_lock, output_index, output_phase,
                      output_pins, enabled, load_confirmed >>

\* the reply of a confirmed command: every such reply is built with a
\* HASH in it (reply_2c(), reply_3c()), which is replaced by the outcome
ConfirmReply(mode) ==
    IF mode = "REPLY_ON_CONFIRM"
    THEN /\ replies' = replies + 1
         /\ reply_text' = IF load_confirmed THEN "1" ELSE "0"
         /\ UNCHANGED acked
    ELSE UNCHANGED out_vars

ManageCheck ==
    /\ pc = "loop"
    /\ last_cmd' = NoCommand
    /\ reported' = FALSE
    /\ IF state[manage] # "LOAD"
       THEN /\ manage' = next[manage]
            /\ last_error' = "NONE"
            /\ UNCHANGED << state, target, duration, bits, reply, pc,
                            confirmation_enabled, encoded, out_vars >>
       ELSE IF pending[manage] # NULL
       THEN \E pp \in { packet[pending[manage]] } :
            \E r \in { pack_command(pp.command, pp.preamble, pp.postamble,
                                     bits[manage]) } :
                /\ bits' = [bits EXCEPT ![manage] = r.buf]
                /\ IF r.ok
                   THEN /\ target' = [target EXCEPT ![manage] = pp.target]
                        /\ duration' = [duration EXCEPT ![manage] = pp.duration]
                        /\ encoded' = [encoded EXCEPT ![manage] = r.buf]
                        /\ pc' = "run"
                        /\ last_error' = "NONE"
                   ELSE /\ pc' = "fail"
                        /\ last_error' = "BIT_TRANS_OVERFLOW"
                        /\ UNCHANGED << target, duration, encoded >>
                /\ UNCHANGED << state, reply, manage, confirmation_enabled,
                                out_vars >>
       ELSE /\ ConfirmReply(reply[manage])
            /\ confirmation_enabled' =
                   (confirmation_enabled /\ reply[manage] # "REPLY_ON_CONFIRM")
            /\ reply' = [reply EXCEPT ![manage] = "NO_REPLY_REQUIRED"]
            /\ state' = [state EXCEPT ![manage] = "EMPTY"]
            /\ manage' = next[manage]
            /\ last_error' = "NONE"
            /\ UNCHANGED << target, duration, bits, pc, encoded >>
    /\ UNCHANGED power_but_error
    /\ UNCHANGED << pending, next, packet, packet_next, free_pending_packets,
                    current, bit_string, one, left, buf, cmd, sent >>
    /\ UNCHANGED cache_vars
    /\ UNCHANGED signal_vars

ManageRun ==
    /\ pc = "run"
    /\ state' = [state EXCEPT ![manage] = "RUN"]
    /\ pc' = "release"
    /\ UNCHANGED << power_vars, target, duration, bits, pending, reply, next,
                    packet, packet_next, free_pending_packets, current,
                    manage, bit_string, one, left, buf, cmd, last_cmd, sent,
                    encoded >>
    /\ UNCHANGED cache_vars
    /\ UNCHANGED signal_vars
    /\ UNCHANGED out_vars

\* a reply on send is due whatever is left on the pending list
SendReplyDueEarly(mode, head) == mode = "REPLY_ON_SEND"

\* ( manage->reply == REPLY_ON_SEND )&&( manage->pending == NULL )
SendReplyDue(mode, head) == mode = "REPLY_ON_SEND" /\ head = NULL

ManageRelease ==
    /\ pc = "release"
    /\ \E hp \in { release_pending_recs(Heap(manage), TRUE) } :
       /\ pending' = [pending EXCEPT ![manage] = hp.head]
       /\ packet' = hp.data
       /\ packet_next' = hp.nxt
       /\ free_pending_packets' = hp.free
       /\ reply' = [reply EXCEPT ![manage] =
                       IF SendReplyDue(reply[manage], hp.head)
                       THEN "NO_REPLY_REQUIRED" ELSE reply[manage]]
       /\ IF SendReplyDue(reply[manage], hp.head)
          THEN /\ replies' = replies + 1
               /\ reply_text' = "sent"
               /\ UNCHANGED acked
          ELSE UNCHANGED out_vars
    /\ manage' = next[manage]
    /\ pc' = "loop"
    /\ UNCHANGED << power_vars, state, target, duration, bits, next,
                    current, bit_string, one, left, buf, cmd, last_cmd, sent,
                    encoded >>
    /\ UNCHANGED cache_vars
    /\ UNCHANGED signal_vars

ManageFail ==
    /\ pc = "fail"
    /\ state' = [state EXCEPT ![manage] = "EMPTY"]
    /\ \E hp \in { release_pending_recs(Heap(manage), FALSE) } :
       /\ pending' = [pending EXCEPT ![manage] = hp.head]
       /\ packet' = hp.data
       /\ packet_next' = hp.nxt
       /\ free_pending_packets' = hp.free
    /\ manage' = next[manage]
    /\ pc' = "loop"
    /\ UNCHANGED << power_vars, target, duration, bits, reply, next,
                    current, bit_string, one, left, buf, cmd, last_cmd, sent,
                    encoded >>
    /\ UNCHANGED cache_vars
    /\ UNCHANGED signal_vars
    /\ UNCHANGED out_vars

(***************************************************************************)
(* ISR( HW_TCCNTn_COMPA_VECT ), at the steps where it reads *bit_string++. *)
(***************************************************************************)
Stream(bs) ==
    IF bs.kind = "idle" THEN dcc_idle_packet
    ELSE IF bs.kind = "filler" THEN dcc_filler_data
    ELSE bits[bs.slot]

\* where the stream read from cell i on has its terminator
RECURSIVE Terminator(_, _)
Terminator(str, i) ==
    IF i > Len(str) \/ str[i] = 0 THEN i ELSE Terminator(str, i + 1)

\* left = *bit_string++ gave a count: more bits of the other value.  The
\* interrupts that send the runs of a stream touch nothing but bit_string,
\* one and left, so the runs up to the terminator are sent in one step.
ISR_NextRun ==
    /\ Stream(bit_string)[bit_string.idx] # 0
    /\ LET t == Terminator(Stream(bit_string), bit_string.idx) IN
       /\ left' = Stream(bit_string)[t - 1]
       /\ bit_string' = [bit_string EXCEPT !.idx = t]
       /\ one' = IF (t - bit_string.idx) % 2 = 0 THEN one ELSE ~one
    /\ UNCHANGED << state, duration, current >>
    /\ UNCHANGED main_only
    /\ UNCHANGED cache_vars
    /\ UNCHANGED signal_vars
    /\ UNCHANGED out_vars

\* the state the signal generator leaves a buffer in when its stream ends
\* a duration counted down whatever the state of the buffer
CountDownAlways(s) == IF duration[s] # 0 THEN duration[s] - 1 ELSE duration[s]

\* if( current->duration && ( current->state == TBS_RUN )) --current->duration
CountDown(s) ==
    IF duration[s] # 0 /\ state[s] = "RUN" THEN duration[s] - 1 ELSE duration[s]

\* a buffer whose duration has run out handed back as EMPTY
ExpireEmpty(s) ==
    IF duration[s] # 0 /\ state[s] = "RUN" /\ duration[s] - 1 = 0
    THEN "EMPTY" ELSE state[s]

Expire(s) ==
    IF duration[s] # 0 /\ state[s] = "RUN" /\ duration[s] - 1 = 0
    THEN "LOAD" ELSE state[s]

\* the selection that sends an idle packet for every buffer not in RUN
SelectIdle(s, st) ==
    IF st = "RUN" THEN [kind |-> "bits", slot |-> s, idx |-> 2]
    ELSE [kind |-> "idle", slot |-> NULL, idx |-> 2]

\* the stream selected for the buffer now current
Select(s, st) ==
    CASE st = "RUN" -> [kind |-> "bits", slot |-> s, idx |-> 2]
      [] st = "RELOAD" -> [kind |-> "idle", slot |-> NULL, idx |-> 2]
      [] st = "LOAD" ->
            IF pending[s] # NULL
            THEN [kind |-> "filler", slot |-> NULL, idx |-> 2]
            ELSE [kind |-> "idle", slot |-> NULL, idx |-> 2]
      [] OTHER -> [kind |-> "idle", slot |-> NULL, idx |-> 2]

\* left = *bit_string++ gave the terminator: move on to the next buffer
ISR_NextBuffer ==
    /\ Stream(bit_string)[bit_string.idx] = 0
    /\ LET st1 == [state EXCEPT ![current] = Expire(current)]
           nc  == next[current]
           bs  == Select(nc, st1[nc])
       IN  /\ duration' = [duration EXCEPT ![current] = CountDown(current)]
           /\ current' = nc
           /\ state' = [st1 EXCEPT ![nc] = IF @ = "RELOAD" THEN "LOAD" ELSE @]
           /\ bit_string' = bs
           /\ left' = Stream(bs)[1]
    /\ one' = TRUE
    /\ UNCHANGED main_only
    /\ UNCHANGED cache_vars
    /\ UNCHANGED signal_vars
    /\ UNCHANGED out_vars

\* reload = ( one = !one )? TICKS_FOR_ONE: TICKS_FOR_ZERO
TicksForOne(b) == TICKS_FOR_ONE

TicksFor(b) == IF b THEN TICKS_FOR_ONE ELSE TICKS_FOR_ZERO

\* ISR( HW_TIMERn_COMPA_vect ): one timer interrupt.  remaining and left
\* are bytes.
ISR ==
    /\ \E r \in { (remaining + 255) % 256 } :
       IF r # 0
       THEN /\ remaining' = r
            /\ held' = held + 1
            /\ UNCHANGED << reload, side, signal, half, state, duration,
                            current, bit_string, one, left >>
       ELSE /\ signal' = IF side THEN "on" ELSE "off"
            /\ side' = ~side
            /\ held' = 0
            /\ half' = IF side /\ signal # "none" THEN held + 1 ELSE 0
            /\ IF side
               THEN UNCHANGED << reload, state, duration, current,
                                 bit_string, one, left >>
               ELSE \E l \in { (left + 255) % 256 } :
                    IF l # 0
                    THEN /\ left' = l
                         /\ UNCHANGED << reload, state, duration, current,
                                         bit_string, one >>
                    ELSE IF Stream(bit_string)[bit_string.idx] # 0
                    THEN /\ left' = Stream(bit_string)[bit_string.idx]
                         /\ bit_string' =
                                [bit_string EXCEPT !.idx = @ + 1]
                         /\ one' = ~one
                         /\ reload' = TicksFor(~one)
                         /\ UNCHANGED << state, duration, current >>
                    ELSE LET st1 == [state EXCEPT
                                        ![current] = Expire(current)]
                             nc  == next[current]
                             bs  == Select(nc, st1[nc])
                         IN  /\ duration' = [duration EXCEPT
                                        ![current] = CountDown(current)]
                             /\ current' = nc
                             /\ state' = [st1 EXCEPT ![nc] =
                                    IF @ = "RELOAD" THEN "LOAD" ELSE @]
                             /\ bit_string' = bs
                             /\ one' = TRUE
                             /\ reload' = TICKS_FOR_ONE
                             /\ left' = Stream(bs)[1]
            /\ remaining' = reload'
    /\ UNCHANGED main_only
    /\ UNCHANGED cache_vars
    /\ UNCHANGED out_vars

(***************************************************************************)
(* Specifications.                                                         *)
(***************************************************************************)
NextPower ==
    \/ Tick
    \/ Monitor
    \/ \E m \in 0..2 : ScanPower(m)

\* the district monitor with readings on the first district that do not
\* depend on its driver being enabled: current fed into it from outside
MonitorAny ==
    /\ pc = "loop"
    /\ \E amps \in (IF output_index = 0 THEN {0, AdcHigh}
                      ELSE Samples(output_index)) : monitor_current_load(amps)
    /\ last_cmd' = NoCommand
    /\ acked' = (acked \/ (load_confirmed' /\ ~load_confirmed))
    /\ UNCHANGED ring_rest
    /\ UNCHANGED cache_vars
    /\ UNCHANGED signal_vars
    /\ UNCHANGED << replies, reply_text >>

NextPowerAny ==
    \/ (now < MaxNowShort /\ Tick)
    \/ MonitorAny
    \/ \E m \in 0..2 : ScanPower(m)

\* the main track powered once and monitored from then on
NextRetry ==
    \/ Tick
    \/ Monitor
    \/ (global_power_state = "OFF" /\ ScanPower(1))

NextRing ==
    \/ \E m \in 0..2 : ScanPower(m)
    \/ \E c \in HostCommands : ScanFind(c)
    \/ ScanCreate
    \/ ScanCommit
    \/ ManageCheck
    \/ ManageRun
    \/ ManageRelease
    \/ ManageFail
    \/ ISR_NextRun
    \/ ISR_NextBuffer

\* the programming track on its own: a host that powers the programming
\* track and then writes CVs, the passing of time and the load readings,
\* with the ring at work
CVCommands == { SetCVCommand(1, 0) }

NextConfirm ==
    \/ (now < MaxNowShort /\ Tick)
    \/ Monitor
    \/ ScanPower(2)
    \/ \E c \in CVCommands : global_power_state = "PROG" /\ ScanFind(c)
    \/ ScanCreate
    \/ ScanCommit
    \/ ManageCheck
    \/ ManageRun
    \/ ManageRelease
    \/ ISR_NextRun
    \/ ISR_NextBuffer

\* the main track on its own: the commands that are answered when sent
SendCommands ==
    { FunctionCommand(3, 0, FUNCTION_TOGGLE), FunctionCommand(3, 1, FUNCTION_ON),
      MobileCommand(1, 0, 1) }

NextSend ==
    \/ ScanPower(1)
    \/ \E c \in SendCommands : ScanFind(c)
    \/ ScanCreate
    \/ ScanCommit
    \/ ManageCheck
    \/ ManageRun
    \/ ManageRelease
    \/ ISR_NextRun
    \/ ISR_NextBuffer

\* the function commands with a pending pool that a CV write has taken up
FuncCommands ==
    { SetCVCommand(1, 0), FunctionCommand(3, 1, FUNCTION_ON),
      FunctionCommand(3, 0, FUNCTION_TOGGLE) }

NextFunc ==
    \/ \E c \in FuncCommands : ScanFind(c)
    \/ ScanCreate
    \/ ScanCommit
    \/ ManageCheck
    \/ ManageRun
    \/ ManageRelease
    \/ ISR_NextRun
    \/ ISR_NextBuffer

\* the signal generator interrupt by interrupt, with a CV write to send
NextSignal ==
    \/ \E c \in CVCommands : sent < MaxSignalCommands /\ ScanFind(c)
    \/ ScanCreate
    \/ ScanCommit
    \/ ManageCheck
    \/ ManageRun
    \/ ManageRelease
    \/ ISR

Next ==
    \/ Tick
    \/ Monitor
    \/ NextRing
    \/ NextCache

(***************************************************************************)
(* pack_command() on its own: the commands the firmware composes are a     *)
(* payload closed by copy_with_parity(); the preamble and postamble are    *)
(* the ones the command handlers pass; the buffer holds whatever the last  *)
(* packet left in it.                                                      *)
(***************************************************************************)
MAXIMUM_DCC_COMMAND == 6

ByteValues == {0, 255, 85, 6}

RECURSIVE Payloads(_)
Payloads(n) ==
    IF n = 0 THEN { << >> }
    ELSE { Append(p, v) : p \in Payloads(n - 1), v \in ByteValues }

PackCommands ==
    { copy_with_parity(p) :
        p \in UNION { Payloads(n) : n \in 1 .. MAXIMUM_DCC_COMMAND - 1 } }

PackInputs ==
    { [ op |-> "pack", command |-> c, preamble |-> pre, postamble |-> post ] :
        c \in PackCommands,
        pre \in {DCC_SHORT_PREAMBLE, DCC_LONG_PREAMBLE},
        post \in {1, CONFIRMATION_PAUSE} }

\* the packets that follow the first one into the same buffer
MaxRepacks == 1

FollowingInputs ==
    { i \in PackInputs : /\ Len(i.command) = 2
                         /\ i.command[1] \in {0, 85}
                         /\ i.preamble = DCC_SHORT_PREAMBLE
                         /\ i.postamble = 1 }

InitPack ==
    /\ init_driver_load
    /\ init_function_cache
    /\ initialise_data_structures
    /\ pc = "pack"
    /\ cmd \in PackInputs

\* pack_command() over what its parameters admit: byte clen and byte
\* postamble go up to 255, past what the command handlers pass.
LongZeros == { [i \in 1 .. n |-> 0] : n \in {28, 29} }

AnyInputs ==
    { [ op |-> "pack", command |-> c, preamble |-> pre, postamble |-> post ] :
        c \in LongZeros
                \cup { copy_with_parity(p) : p \in Payloads(1) \cup Payloads(2) },
        pre \in {DCC_SHORT_PREAMBLE, DCC_LONG_PREAMBLE},
        post \in {1, CONFIRMATION_PAUSE, 245, 246, 247, 254, 255} }

InitPackAny ==
    /\ init_driver_load
    /\ init_function_cache
    /\ initialise_data_structures
    /\ pc = "pack"
    /\ cmd \in AnyInputs

\* pack_command( command, len, preamble, postamble, manage->bits )
Pack ==
    /\ pc = "pack"
    /\ \E r \in { pack_command(cmd.command, cmd.preamble, cmd.postamble,
                               bits[0]) } :
        /\ bits' = [bits EXCEPT ![0] = r.buf]
        /\ pc' = IF r.ok THEN "packed" ELSE "failed"
    /\ UNCHANGED power_vars
    /\ UNCHANGED << state, target, duration, pending, reply, next, packet,
                    packet_next, free_pending_packets, current, manage,
                    bit_string, one, left, buf, cmd, last_cmd, sent,
                    encoded >>
    /\ UNCHANGED cache_vars
    /\ UNCHANGED signal_vars
    /\ UNCHANGED out_vars

\* the next record of the pending list is packed into the same bits array
Repack ==
    /\ pc \in {"packed", "failed"}
    /\ sent < MaxRepacks
    /\ sent' = sent + 1
    /\ cmd' \in FollowingInputs
    /\ pc' = "pack"
    /\ UNCHANGED power_vars
    /\ UNCHANGED << state, target, duration, bits, pending, reply, next,
                    packet, packet_next, free_pending_packets, current,
                    manage, bit_string, one, left, buf, last_cmd, encoded >>
    /\ UNCHANGED cache_vars
    /\ UNCHANGED signal_vars
    /\ UNCHANGED out_vars

NextPack == Pack \/ Repack

(***************************************************************************)
(* create_pending_rec() on its own: a command handler queues a payload of  *)
(* 1 to MAXIMUM_DCC_COMMAND - 1 bytes for a mobile decoder.                *)
(***************************************************************************)
PayloadCommands ==
    { [ op |-> "M", arg |-> << 1, 0, 1 >>,
        base |-> MOBILE_BASE_BUFFER, count |-> MOBILE_TRANS_BUFFERS,
        target |-> 1,
        recs |-> << Rec(1, 0, DCC_SHORT_PREAMBLE, 1, p) >>,
        reply |-> "REPLY_ON_SEND", confirm |-> FALSE ] :
        p \in UNION { Payloads(n) : n \in 1 .. MAXIMUM_DCC_COMMAND - 1 } }

\* the first command carries any payload, those that follow it one byte
NextQueue ==
    \/ \E c \in PayloadCommands :
           /\ sent = 0 \/ Len(c.recs[1].command) = 1
           /\ ScanFind(c)
    \/ ScanCreate
    \/ ScanCommit

Spec == Init /\ [][Next]_vars

\* The district monitor and the power mode controller.
SpecPower == Init /\ [][NextPower]_vars

\* The district monitor with readings on districts that are switched off.
SpecPowerAny == Init /\ [][NextPowerAny]_vars

\* The district monitor with samples that keep arriving and time that
\* keeps advancing.
SpecPowerFair == SpecPower /\ WF_vars(Tick) /\ WF_vars(Monitor)

\* The monitor of the powered main track, with samples that keep arriving
\* and time that keeps advancing.
SpecRetryFair ==
    Init /\ [][NextRetry]_vars /\ WF_vars(Tick) /\ WF_vars(Monitor)

\* The transmission buffers, their manager and the signal generator.
SpecRing == Init /\ [][NextRing]_vars

\* The function cache.
SpecConfirm == Init /\ [][NextConfirm]_vars

SpecSend == Init /\ [][NextSend]_vars

SpecQueue == Init /\ [][NextQueue]_vars

SpecFunc == Init /\ [][NextFunc]_vars

SpecSignal == Init /\ [][NextSignal]_vars

SpecCache == Init /\ [][NextCache]_vars

\* The bit stream encoder.
SpecPack == InitPack /\ [][NextPack]_vars

\* The bit stream encoder over all that its parameters admit.
SpecPackAny == InitPackAny /\ [][NextPack]_vars

\* loop() never returns to a caller and the timer interrupt keeps firing:
\* a command that has been read is carried through, the manager is called
\* on every pass and the ISR runs whenever its timer expires.  Nothing
\* obliges the host to send a command.
SpecRingFair ==
    /\ SpecRing
    /\ WF_vars(ScanCreate \/ ScanCommit \/ ManageCheck \/ ManageRun
                   \/ ManageRelease \/ ManageFail)
    /\ WF_vars(ISR_NextRun \/ ISR_NextBuffer)

(***************************************************************************)
(* The district monitor and the power mode controller.                     *)
(***************************************************************************)
Flipped == { d \in Districts : status[d] = "FLIPPED" }

\* C1: at every point at most one district has status FLIPPED, and a
\* district that is FLIPPED is the one the phase flipping lock points to.
C1_OneFlippedHoldsLock ==
    /\ Cardinality(Flipped) <= 1
    /\ \A d \in Flipped : flip_lock = d

\* C1 witness: a district is FLIPPED and holds the lock while another
\* district is switched on beside it.
C1_Witness ==
    \E d, e \in Districts :
        /\ d # e
        /\ status[d] = "FLIPPED"
        /\ flip_lock = d
        /\ status[e] \in {"ON", "BLOCKED"}

\* C2: before every monitor invocation the lock points to the district
\* about to be processed if and only if that district is FLIPPED.
C2_LockIffFlipped ==
    pc = "loop" =>
        ((flip_lock = output_index) <=> (status[output_index] = "FLIPPED"))

\* C4: a request for MAIN or PROG made while the power mode is not OFF
\* is rejected with POWER_NOT_OFF and changes neither the mode, nor a
\* district status, nor the ring linkage; the mode never changes between
\* MAIN and PROG in one step.
C4_PowerNotOff ==
    [][ /\ ( /\ sent' = sent + 1
             /\ last_cmd'.op = "P"
             /\ last_cmd'.arg \in {1, 2}
             /\ global_power_state # "OFF" )
           => ( /\ last_error' = "POWER_NOT_OFF"
                /\ UNCHANGED << global_power_state, status, next >> )
        /\ global_power_state' # global_power_state
           => (global_power_state = "OFF" \/ global_power_state' = "OFF")
      ]_vars

\* C4 witness: PROG was asked for while MAIN was on, and was refused.
C4_Witness ==
    /\ last_cmd = [op |-> "P", arg |-> 2]
    /\ last_error = "POWER_NOT_OFF"
    /\ global_power_state = "MAIN"

(***************************************************************************)
(* The transmission buffers.                                               *)
(***************************************************************************)
\* The records linked from ptr on, as far as n links are followed.
RECURSIVE Chain(_, _)
Chain(ptr, n) ==
    IF ptr = NULL \/ n = 0 THEN << >>
    ELSE << ptr >> \o Chain(packet_next[ptr], n - 1)

Range(seq) == { seq[i] : i \in DOMAIN seq }

FreeChain == Chain(free_pending_packets, PENDING_PACKETS + 1)
Fifo(s) == Chain(pending[s], PENDING_PACKETS + 1)

RECURSIVE SumLen(_)
SumLen(S) ==
    IF S = {} THEN 0
    ELSE LET s == CHOOSE x \in S : TRUE IN Len(Fifo(s)) + SumLen(S \ {s})

\* C5: every pending packet record is on the free list or on exactly one
\* buffer's pending list, never on both and never on two lists, so the free
\* records and the queued records together are the whole pool.
C5_PoolConserved ==
    /\ Cardinality(Range(FreeChain)) = Len(FreeChain)
    /\ \A s \in Slots : Cardinality(Range(Fifo(s))) = Len(Fifo(s))
    /\ \A s \in Slots : Range(Fifo(s)) \cap Range(FreeChain) = {}
    /\ \A s, t \in Slots : s # t => Range(Fifo(s)) \cap Range(Fifo(t)) = {}
    /\ \A r \in Recs :
          r \in Range(FreeChain) \/ \E s \in Slots : r \in Range(Fifo(s))
    /\ Len(FreeChain) + SumLen(Slots) = PENDING_PACKETS

\* C5 witness: a submission found the pool short and was rejected while
\* another buffer still holds a queued record.
C5_Witness ==
    /\ last_error = "COMMAND_QUEUE_FAILED"
    /\ \E s \in Slots : pending[s] # NULL
    /\ free_pending_packets # NULL

MainSlots == 0 .. (PROGRAMMING_BASE_BUFFER - 1)
ProgSlots == PROGRAMMING_BASE_BUFFER .. (TRANSMISSION_BUFFERS - 1)

RECURSIVE Follow(_, _)
Follow(s, n) == IF n = 0 THEN s ELSE Follow(next[s], n - 1)

\* The buffers that a walk along the next links from s keeps coming back to.
Cycle(s) ==
    LET c == Follow(s, TRANSMISSION_BUFFERS)
    IN  { Follow(c, n) : n \in 0 .. (TRANSMISSION_BUFFERS - 1) }

\* C6: while the power mode is MAIN the cycle of next links that the ISR
\* and the manager go round holds only accessory and mobile buffers, and
\* while it is PROG only programming buffers.
C6_RingPartition ==
    /\ global_power_state = "MAIN" =>
          (Cycle(current) \cup Cycle(manage)) \subseteq MainSlots
    /\ global_power_state = "PROG" =>
          (Cycle(current) \cup Cycle(manage)) \subseteq ProgSlots

\* C6 witness: in PROG mode the ISR and the manager have both walked from
\* the operating buffers into the programming buffers.
C6_Witness ==
    /\ global_power_state = "PROG"
    /\ current \in ProgSlots
    /\ manage \in ProgSlots

\* C7: the buffer found for a command is one of its range whose target is
\* the requested target if there is one, otherwise the lowest buffer of the
\* range that is EMPTY, otherwise none and the command is refused with
\* TRANSMISSION_BUSY.
C7_FindSlot ==
    [][ (sent' = sent + 1 /\ last_cmd'.op \in {"M", "S"}) =>
        LET c     == last_cmd'
            range == c.base .. (c.base + c.count - 1)
            match == { s \in range : target[s] = c.target }
            empty == { s \in range : state[s] = "EMPTY" }
        IN  IF match # {}
            THEN pc' = "create" /\ buf' \in match
            ELSE IF empty # {}
            THEN /\ pc' = "create"
                 /\ buf' \in empty
                 /\ \A s \in empty : buf' <= s
            ELSE /\ pc' = "loop"
                 /\ last_error' = "TRANSMISSION_BUSY"
                 /\ UNCHANGED << state, pending, reply >>
      ]_vars

\* C7 witness: a mobile command was refused as busy: neither mobile buffer
\* carried its target and neither was EMPTY.
C7_Witness ==
    /\ last_error = "TRANSMISSION_BUSY"
    /\ last_cmd.op = "M"
    /\ \A s \in MOBILE_BASE_BUFFER .. (MOBILE_BASE_BUFFER + MOBILE_TRANS_BUFFERS - 1) :
          state[s] # "EMPTY" /\ target[s] # last_cmd.target

\* C3: while the ISR sends the stream of a buffer, and while a buffer is in
\* RUN, its bits are the complete stream of the manager's last successful
\* encoding of that buffer and no step writes them.
C3_PingPong ==
    [][ \A s \in Slots :
          (state[s] = "RUN" \/ (bit_string.kind = "bits" /\ bit_string.slot = s))
          => /\ bits[s] = encoded[s]
             /\ bits'[s] = bits[s]
             /\ ~(manage = s /\ pc = "loop" /\ pc' \in {"run", "fail"})
      ]_vars

\* C3 witness: the host has replaced the command of a buffer while the ISR
\* is in the middle of that buffer's stream.
C3_Witness ==
    /\ bit_string.kind = "bits"
    /\ state[bit_string.slot] = "RELOAD"
    /\ pending[bit_string.slot] # NULL

\* C8: as long as the main loop keeps running, a buffer that is in LOAD is
\* in time visited by the manager and leaves LOAD, whatever commands and
\* power mode changes come.
C8_LoadProcessed ==
    \A s \in Slots : (state[s] = "LOAD") ~> (state[s] # "LOAD")

(***************************************************************************)
(* The bit stream encoder.                                                 *)
(***************************************************************************)
\* the bits a run-length stream stands for: the cells up to the terminator
\* are runs of 1s and 0s in turn, the first a run of 1s
RECURSIVE Decode(_, _, _)
Decode(cells, i, bit) ==
    IF i > Len(cells) \/ cells[i] = 0 THEN << >>
    ELSE [k \in 1 .. cells[i] |-> bit] \o Decode(cells, i + 1, 1 - bit)

\* the bits of a DCC packet: the preamble of 1s, each byte after a 0 start
\* bit with its most significant bit first, the 1 end bit and the postamble
PacketBits(command, preamble, postamble) ==
    [k \in 1 .. preamble |-> 1]
    \o [j \in 1 .. 9 * Len(command) |->
            IF (j - 1) % 9 = 0 THEN 0
            ELSE (command[((j - 1) \div 9) + 1]
                      \div Pow2(8 - ((j - 1) % 9))) % 2]
    \o [k \in 1 .. 1 + postamble |-> 1]

\* C9: decoding the cells of a successful encode as runs of 1, 0, 1, ...
\* gives back the preamble, each byte behind a 0 start bit, the 1 end bit
\* and the postamble; the decoded length is preamble + 1 + 9n + postamble.
C9_RoundTrip ==
    pc = "packed" =>
        LET d == Decode(bits[0], 1, 1) IN
        /\ d = PacketBits(cmd.command, cmd.preamble, cmd.postamble)
        /\ Len(d) = cmd.preamble + 1 + 9 * Len(cmd.command) + cmd.postamble

\* C9 witness: a command of the greatest length, with bytes of both
\* values, was encoded with the long preamble and the confirmation pause.
C9_Witness ==
    /\ pc = "packed"
    /\ Len(cmd.command) = MAXIMUM_DCC_COMMAND
    /\ cmd.preamble = DCC_LONG_PREAMBLE
    /\ cmd.postamble = CONFIRMATION_PAUSE
    /\ \E i, j \in 1 .. Len(cmd.command) :
           cmd.command[i] = 0 /\ cmd.command[j] = 255

\* the number of runs of equal bits in a sequence of bits
Runs(seq) ==
    1 + Cardinality({ i \in 1 .. Len(seq) - 1 : seq[i] # seq[i + 1] })

\* C10: a successful encode leaves no zero cell before the terminator, no
\* cell above 255, and exactly one terminator, which lies inside the
\* buffer of BIT_TRANSITIONS cells: the cells of the runs of the packet
\* are all in 1 .. 255 and the cell behind them is the one that is 0.
C10_CellsWellFormed ==
    pc = "packed" =>
        LET n == Runs(PacketBits(cmd.command, cmd.preamble, cmd.postamble))
        IN  /\ n + 1 <= BIT_TRANSITIONS
            /\ \A i \in 1 .. n : bits[0][i] \in 1 .. MAXIMUM_BIT_ITERATIONS
            /\ bits[0][n + 1] = 0
            /\ Terminator(bits[0], 1) = n + 1

\* C10 witness: a short stream was written over the cells of a longer
\* one, whose cells still stand behind the new terminator.
C10_Witness ==
    /\ pc = "packed"
    /\ sent > 0
    /\ LET t == Terminator(bits[0], 1) IN
       /\ t < BIT_TRANSITIONS
       /\ bits[0][t + 1] # 0

\* a run of more than MAXIMUM_BIT_ITERATIONS equal bits lies in seq
RunOver(seq) ==
    \E i \in 1 .. Len(seq) - MAXIMUM_BIT_ITERATIONS :
        \A j \in i .. i + MAXIMUM_BIT_ITERATIONS : seq[j] = seq[i]

\* the 1 bits at the end of a byte
RECURSIVE TrailingOnes(_)
TrailingOnes(v) == IF v % 2 = 0 THEN 0 ELSE 1 + TrailingOnes(v \div 2)

\* the 1 bits of the last run before the postamble: the end of the last
\* byte and the end-of-packet bit
LastRun(command) == TrailingOnes(command[Len(command)]) + 1

FailStep == pc = "fail" /\ pc' = "loop"

\* what a failed encoding does to the buffer, the reply apart
FailDropsSlot ==
    /\ last_error = "BIT_TRANS_OVERFLOW"
    /\ state[manage] = "LOAD"
    /\ state'[manage] = "EMPTY"
    /\ pending'[manage] = NULL
    /\ Range(Fifo(manage)) # {}
    /\ Range(Fifo(manage)) \subseteq Range(FreeChain)'
    /\ \A s \in Slots \ {manage} :
           /\ state'[s] = state[s]
           /\ pending'[s] = pending[s]
           /\ reply'[s] = reply[s]
           /\ bits'[s] = bits[s]
           /\ target'[s] = target[s]
           /\ duration'[s] = duration[s]
    /\ UNCHANGED << next, current, bit_string >>
    /\ manage' = next[manage]

\* C12: when the encoding of the head packet of a LOAD slot fails the
\* manager logs BIT_TRANS_OVERFLOW, gives all the records of the slot back
\* to the free list and leaves the slot EMPTY with no reply owed; the
\* other slots are untouched and the manager moves on.
C12_FailureDropsSlot ==
    [][ FailStep => (FailDropsSlot /\ reply'[manage] = "NO_REPLY_REQUIRED")
      ]_vars

(***************************************************************************)
(* The function cache.                                                     *)
(***************************************************************************)
\* the records of the cache list from ptr on, n of them at most
RECURSIVE CacheChain(_, _)
CacheChain(ptr, n) ==
    IF ptr = NULL \/ n = 0 THEN << >>
    ELSE << ptr >> \o CacheChain(fc_next[ptr], n - 1)

CacheList == CacheChain(function_cache, FUNCTION_CACHE_RECS + 1)

\* C13: the head of the list holds the target asked for last, and the
\* targets held are the ones asked for most recently, in that order: a
\* miss has evicted the target whose last access was the oldest.
C13_LeastRecentEvicted ==
    \A i \in 1 .. Len(CacheList) :
        fc_target[CacheList[i]] = IF i <= Len(fc_used) THEN fc_used[i] ELSE 0

\* C13 witness: one target more than the cache holds has been asked for,
\* and the first of them is the one no longer held.
C13_Witness ==
    /\ Len(fc_used) = FUNCTION_CACHE_RECS + 1
    /\ \A r \in FuncRecs : fc_target[r] # fc_used[Len(fc_used)]
    /\ \A i \in 1 .. FUNCTION_CACHE_RECS :
           \E r \in FuncRecs : fc_target[r] = fc_used[i]

\* C14: no two records hold the same target (a record with target 0 is
\* an empty one), and the list holds every record exactly once, linked
\* both ways.
C14_CacheWellFormed ==
    /\ \A r, q \in FuncRecs :
           (r # q /\ fc_target[r] # 0) => fc_target[r] # fc_target[q]
    /\ Len(CacheList) = FUNCTION_CACHE_RECS
    /\ Range(CacheList) = FuncRecs
    /\ fc_prev[function_cache] = AdrsOfHead
    /\ \A r \in FuncRecs : fc_next[r] # NULL => fc_prev[fc_next[r]] = r

\* C14 witness: every record holds a target and the record in the middle
\* of the array has been moved to the head of the list.
C14_Witness ==
    /\ \A r \in FuncRecs : fc_target[r] # 0
    /\ function_cache = 1
    /\ fc_next[1] = 0

(***************************************************************************)
(* The CV write and the replies.                                           *)
(***************************************************************************)
\* the step of scan_line() that accepts a command
AcceptStep(op) == pc = "commit" /\ cmd.op = op /\ pc' = "loop"

\* the packets a CV byte write is made of
ResetPacket ==
    [ target |-> 0, duration |-> SERVICE_MODE_RESET_REPEATS,
      preamble |-> DCC_LONG_PREAMBLE, postamble |-> 1,
      command |-> << 0, 0, 0 >> ]

WritePacket(cv, value) ==
    [ target |-> 0, duration |-> SERVICE_MODE_COMMAND_REPEATS,
      preamble |-> DCC_LONG_PREAMBLE, postamble |-> CONFIRMATION_PAUSE,
      command |-> copy_with_parity(
                      << 124 + (((cv - MINIMUM_CV_ADDRESS) \div 256) % 4),
                         (cv - MINIMUM_CV_ADDRESS) % 256, value >>) ]

\* C15: an accepted CV byte write leaves four packets on the programming
\* slot, in the order reset, write, write, reset, arms the confirmation
\* mode with the latch cleared and sets the reply mode to ON_CONFIRM.
C15_CVWriteQueued ==
    [][ AcceptStep("S") =>
          \E b \in {buf} : \E cv \in {cmd.arg[1]} : \E value \in {cmd.arg[2]} :
              /\ b \in ProgSlots
              /\ [i \in 1 .. Len(Fifo(b)') |-> packet'[Fifo(b)'[i]]]
                    = << ResetPacket, WritePacket(cv, value),
                         WritePacket(cv, value), ResetPacket >>
              /\ confirmation_enabled'
              /\ ~load_confirmed'
              /\ reply'[b] = "REPLY_ON_CONFIRM"
              /\ state'[b] \in {"LOAD", "RELOAD"}
      ]_vars

\* C15 witness: a CV write has been accepted on the programming slot.
C15_Witness ==
    /\ pc = "loop"
    /\ last_cmd.op = "S"
    /\ last_error = "NONE"
    /\ Len(Fifo(PROGRAMMING_BASE_BUFFER)) = 4
    /\ reply[PROGRAMMING_BASE_BUFFER] = "REPLY_ON_CONFIRM"
    /\ confirmation_enabled

(***************************************************************************)
(* C16: when the manager finds a LOAD slot with nothing pending and a      *)
(* reply due on confirmation, that step prints the reply once, saying 1    *)
(* when load_confirmed was set at some time since the command armed the    *)
(* confirmation and 0 when it was not, clears confirmation_enabled and     *)
(* leaves the slot EMPTY with no reply required; no other step prints the  *)
(* reply of such a slot.                                                   *)
(***************************************************************************)
ConfirmStep ==
    /\ pc = "loop"
    /\ state[manage] = "LOAD"
    /\ pending[manage] = NULL
    /\ reply[manage] = "REPLY_ON_CONFIRM"
    /\ state'[manage] = "EMPTY"

C16_ConfirmReply ==
    [][ /\ ConfirmStep =>
            /\ replies' = replies + 1
            /\ reply_text' = (IF acked THEN "1" ELSE "0")
            /\ ~confirmation_enabled'
            /\ reply'[manage] = "NO_REPLY_REQUIRED"
        /\ (reply[manage] = "REPLY_ON_CONFIRM" /\ replies' # replies) =>
            ConfirmStep ]_vars

C16_Witness == replies > 0 /\ reply_text = "1" /\ acked

C16_WitnessFailed == replies > 0 /\ reply_text = "0" /\ ~acked
(***************************************************************************)
(* C17: for a slot whose reply is due on sending, the manager prints the   *)
(* reply once, in the visit that encodes the last packet of the pending    *)
(* list (the list is empty when the visit ends) and then sets the reply    *)
(* mode to NO_REPLY_REQUIRED; a visit that encodes an earlier packet       *)
(* prints nothing and leaves the mode, and no other step prints for such   *)
(* a slot.                                                                 *)
(***************************************************************************)
SendStep ==
    /\ pc = "release"
    /\ pc' = "loop"
    /\ reply[manage] = "REPLY_ON_SEND"

C17_WitnessEarlier ==
    /\ state[ACCESSORY_BASE_BUFFER] = "RUN"
    /\ reply[ACCESSORY_BASE_BUFFER] = "REPLY_ON_SEND"
    /\ pending[ACCESSORY_BASE_BUFFER] # NULL
    /\ replies = 0

BitOf(v, k) == (v \div (2 ^ k)) % 2

\* the XOR of the bytes of a payload: bit k is set when it is set in an odd
\* number of them
XorAll(p) ==
    LET Odd(k) == Cardinality({ i \in 1 .. Len(p) : BitOf(p[i], k) = 1 }) % 2
        RECURSIVE Sum(_)
        Sum(k) == IF k > 7 THEN 0 ELSE Odd(k) * (2 ^ k) + Sum(k + 1)
    IN  Sum(0)

QueueStep == pc = "create" /\ pc' = "commit"

C18_ParityStored ==
    [][ QueueStep =>
            \E b \in {buf} : \E p \in {cmd.recs[1].command} :
                /\ Len(p) \in 1 .. 5
                /\ pending'[b] # NULL
                /\ pending'[b] = free_pending_packets
                /\ Len(packet'[pending'[b]].command) = Len(p) + 1
                /\ SubSeq(packet'[pending'[b]].command, 1, Len(p)) = p
                /\ packet'[pending'[b]].command[Len(p) + 1] = XorAll(p) ]_vars

\* a payload of 5 bytes stored with a parity byte that is not 0
C18_Witness ==
    \E r \in Recs :
        /\ pending[MOBILE_BASE_BUFFER] = r
        /\ packet[r].command = << 85, 6, 255, 0, 6, 170 >>
(***************************************************************************)
(* C19: every change of the state of a slot is EMPTY to LOAD or anything   *)
(* to RELOAD by a command handler, LOAD to RUN or LOAD to EMPTY by the     *)
(* manager on the slot it manages, RUN to LOAD or RELOAD to LOAD by the    *)
(* timer interrupt; so the manager changes no slot that is not in LOAD     *)
(* and the interrupt changes no slot that is in EMPTY or LOAD.             *)
(***************************************************************************)
\* the steps of the command handlers, of the manager and of the interrupt
HostStep == (\E m \in 0 .. 2 : ScanPower(m)) \/ (\E c \in HostCommands : ScanFind(c))
               \/ ScanCreate \/ ScanCommit

ManagerStep == ManageCheck \/ ManageRun \/ ManageRelease \/ ManageFail

IsrStep == ISR_NextRun \/ ISR_NextBuffer

StateChange(s) ==
    \/ /\ HostStep
       /\ \/ state[s] = "EMPTY" /\ state'[s] = "LOAD"
          \/ state'[s] = "RELOAD"
    \/ /\ ManagerStep
       /\ s = manage
       /\ state[s] = "LOAD"
       /\ state'[s] \in {"RUN", "EMPTY"}
    \/ /\ IsrStep
       /\ state[s] \in {"RUN", "RELOAD"}
       /\ state'[s] = "LOAD"

C19_StateChanges ==
    [][ \A s \in Slots : state'[s] # state[s] => StateChange(s) ]_vars

\* a slot superseded while another runs and a third has been emptied by the
\* manager after its packet failed to encode
C19_Witness ==
    \E s, t \in Slots :
        /\ state[s] = "RELOAD"
        /\ state[t] = "RUN"
        /\ sent = MaxCommands
(***************************************************************************)
(* C20: a command handler marks a slot RELOAD only when the slot is in     *)
(* RUN; a slot that is in LOAD or already in RELOAD is never marked.       *)
(***************************************************************************)
MarkStep == pc = "commit" /\ pc' = "loop" /\ state'[buf] = "RELOAD"

C20_ReloadFromRun ==
    [][ MarkStep => state[buf] = "RUN" ]_vars
(***************************************************************************)
(* C21, as stated: the bits, duration and target of a slot change only in  *)
(* a step of the manager on the slot it manages while that slot is in      *)
(* LOAD; no step of the interrupt and no command handler changes them.     *)
(***************************************************************************)
ManagerWrites(s) == ManagerStep /\ s = manage /\ state[s] = "LOAD"

C21_ManagerOnlyWrites ==
    [][ \A s \in Slots :
            (bits'[s] # bits[s] \/ duration'[s] # duration[s]
                \/ target'[s] # target[s]) => ManagerWrites(s) ]_vars

(***************************************************************************)
(* C21, amended: bits and target change only in a step of the manager on   *)
(* the slot it manages while in LOAD; duration changes there too, and      *)
(* otherwise only by the interrupt counting it down by one while the slot  *)
(* is in RUN; no command handler changes any of the three.                 *)
(***************************************************************************)
C21_WritesByManagerAndCountDown ==
    [][ \A s \in Slots :
            /\ (bits'[s] # bits[s] \/ target'[s] # target[s]) =>
                    ManagerWrites(s)
            /\ duration'[s] # duration[s] =>
                    \/ ManagerWrites(s)
                    \/ /\ IsrStep
                       /\ state[s] = "RUN"
                       /\ duration'[s] = duration[s] - 1 ]_vars

\* a packet with repeats, counted down once by the interrupt
C21_Witness ==
    \E s \in Slots :
        /\ state[s] = "RUN"
        /\ target[s] = 1
        /\ bits[s] # EmptyBits
        /\ duration[s] = TRANSIENT_COMMAND_REPEATS - 1
(***************************************************************************)
(* C22: a packet encoded with a duration d > 0 is sent d times before its  *)
(* slot returns to LOAD.  The duration is the count of what is left: the   *)
(* interrupt counts it down only where it has just sent the whole bit      *)
(* stream of that slot, as the manager encoded it; each whole stream of a  *)
(* RUN slot with a duration counts it down by one; and the slot goes to    *)
(* LOAD at the count that reaches 0, not before.                           *)
(***************************************************************************)
\* the interrupt is at the end of the bit stream of slot s
StreamSent(s) ==
    /\ ISR_NextBuffer
    /\ bit_string.kind = "bits"
    /\ bit_string.slot = s
    /\ bits[s] = encoded[s]

C22_SentDurationTimes ==
    [][ \A s \in Slots :
            /\ (IsrStep /\ duration'[s] # duration[s]) =>
                    /\ StreamSent(s)
                    /\ duration'[s] = duration[s] - 1
            /\ (StreamSent(s) /\ state[s] = "RUN" /\ duration[s] > 0) =>
                    duration'[s] = duration[s] - 1
            /\ (IsrStep /\ state[s] = "RUN" /\ state'[s] = "LOAD") =>
                    (StreamSent(s) /\ duration[s] = 1) ]_vars
(***************************************************************************)
(* C23: an interrupt that comes to a slot in LOAD with packets pending     *)
(* sends filler data, not an idle packet; and the manager takes a record   *)
(* off the pending list only once that record is encoded in the bits of    *)
(* the slot (or drops the whole list where the encoding failed), so it     *)
(* never leaves a slot in LOAD with nothing pending while a packet of the  *)
(* sequence is still to be encoded.                                        *)
(***************************************************************************)
C23_FillerBetweenPackets ==
    [][ /\ \A s \in Slots :
            (ISR_NextBuffer /\ current' = s /\ pending[s] # NULL
                /\ (IF s = current THEN Expire(s) ELSE state[s]) = "LOAD")
                => bit_string'.kind = "filler"
        /\ (ManagerStep /\ pending'[manage] # pending[manage]) =>
            \/ pc = "fail"
            \/ /\ pc = "release"
               /\ pending'[manage] = packet_next[pending[manage]]
               /\ \E pp \in { packet[pending[manage]] } :
                      /\ target[manage] = pp.target
                      /\ pack_command(pp.command, pp.preamble, pp.postamble,
                                      bits[manage]).buf = bits[manage] ]_vars

\* filler data for the programming buffer between two packets of a CV write
C23_Witness ==
    /\ bit_string.kind = "filler"
    /\ current = PROGRAMMING_BASE_BUFFER
    /\ state[current] = "LOAD"
    /\ pending[current] # NULL
    /\ encoded[current] # EmptyBits
    /\ pc = "loop"

\* the state the signal generator finds buffer s in as it comes to it
Found(s) == IF s = current THEN Expire(s) ELSE state[s]

\* C24, the handling of a buffer marked RELOAD: a stream of the buffer's
\* bits is only ever begun for a buffer found in RUN, a buffer in RELOAD
\* stays in RELOAD until the signal generator comes to it, and at that
\* visit the idle packet is selected and the buffer is set to LOAD.
C24_ReloadHandled ==
    [][ \A s \in Slots :
          /\ (bit_string'.kind = "bits" /\ bit_string'.slot = s
                  /\ (bit_string.kind # "bits" \/ bit_string.slot # s
                          \/ ISR_NextBuffer))
                => (ISR_NextBuffer /\ current' = s /\ Found(s) = "RUN")
          /\ (state[s] = "RELOAD" /\ state'[s] # "RELOAD")
                => (ISR_NextBuffer /\ current' = s)
          /\ (ISR_NextBuffer /\ current' = s /\ state[s] = "RELOAD")
                => (bit_string'.kind = "idle" /\ state'[s] = "LOAD")
      ]_vars

\* C24: as long as the signal generator keeps running, a buffer that is
\* in RELOAD in time reaches LOAD.
C24_ReloadReachesLoad ==
    \A s \in Slots : (state[s] = "RELOAD") ~> (state[s] = "LOAD")


\* the decoders a buffer works for: the target of the packet in its bits
\* and the targets of the records on its pending list
SlotTargets(s) ==
    (IF target[s] # 0 THEN { target[s] } ELSE {})
        \cup { packet[r].target : r \in Range(Fifo(s)) }

\* C25: among the mobile buffers no two that are not EMPTY carry or are
\* queued with packets for the same decoder, whatever submissions, manager
\* steps and interrupts have come.
C25_OneSlotPerTarget ==
    \A s1, s2 \in MOBILE_BASE_BUFFER .. (PROGRAMMING_BASE_BUFFER - 1) :
        (s1 # s2 /\ state[s1] # "EMPTY" /\ state[s2] # "EMPTY")
            => SlotTargets(s1) \cap SlotTargets(s2) = {}


\* the buffers of the track that is powered
ActiveSlots == IF global_power_state = "PROG" THEN ProgSlots ELSE MainSlots

\* C26: while a track is powered, the buffer the ISR stands on and the
\* buffer the manager stands on, wherever they stood when the ring was
\* linked for that track, come into the buffers of that track within as many
\* next links as there are buffers of the other track; the next link of a
\* buffer of that track leads to a buffer of that track; and the two links
\* that shape the ring both lead to the first buffer of that track.
C26_RelinkedRing ==
    global_power_state \in { "MAIN", "PROG" } =>
        /\ \A s \in { current, manage } :
              \E n \in 0 .. Cardinality(Slots \ ActiveSlots) :
                  Follow(s, n) \in ActiveSlots
        /\ \A s \in ActiveSlots : next[s] \in ActiveSlots
        /\ \A s \in { PROGRAMMING_BASE_BUFFER - 1, TRANSMISSION_BUFFERS - 1 } :
              /\ next[s] \in ActiveSlots
              /\ \A a \in ActiveSlots : next[s] <= a

\* C26 witness: the main track has been powered while the ISR stands on a
\* programming buffer and the manager on a main buffer, after the ring had
\* been linked for the programming track.
C26_Witness ==
    /\ global_power_state = "MAIN"
    /\ current \in ProgSlots
    /\ manage \in MainSlots
    /\ next[current] = 0
    /\ sent = MaxCommands


(***************************************************************************)
(* The spike column of the district monitor.                               *)
(***************************************************************************)
\* a step of the monitor that samples district d with the reading amps and
\* finds the spike average above the instant limit
SpikeStep(d, amps) ==
    /\ pc = "loop"
    /\ output_index = d
    /\ amps \in Samples(d)
    /\ status[d] # "ON_GRACE"
    /\ IsSpike(UpdateAverages(compound_value[d], amps, confirmation_enabled))
    /\ monitor_current_load(amps)

\* the output phases with that of district d inverted and no other changed
Flip(d) == [output_phase EXCEPT ![d] = ~output_phase[d]]

C28_SecondBlocked ==
    [][ \A d \in Districts, amps \in {0, AdcHigh} :
          /\ (SpikeStep(d, amps) /\ status[d] = "ON" /\ flip_lock = NULL)
                => (status'[d] = "FLIPPED" /\ flip_lock' = d)
          /\ (SpikeStep(d, amps) /\ status[d] = "ON" /\ flip_lock # NULL)
                => /\ status'[d] = "BLOCKED"
                   /\ recheck'[d] = now + DRIVER_PHASE_PERIOD
                   /\ UNCHANGED << flip_lock, output_phase >>
          /\ (SpikeStep(d, amps) /\ status[d] = "BLOCKED" /\ flip_lock # NULL
                  /\ now > recheck[d])
                => /\ ~enabled'[d]
                   /\ status'[d] = "OFF"
                   /\ recheck'[d] = now + DRIVER_RESET_PERIOD
                   /\ UNCHANGED << flip_lock, output_phase >>
      ]_vars

\* C28 witness: the monitor has just set a district OFF for the long period
\* with no error logged while another district is FLIPPED and holds the
\* lock: the district was BLOCKED behind it.
C28_Witness ==
    \E d, e \in Districts :
        /\ d # e
        /\ status[d] = "FLIPPED"
        /\ flip_lock = d
        /\ status[e] = "OFF"
        /\ ~enabled[e]
        /\ recheck[e] = now + DRIVER_RESET_PERIOD
        /\ output_index = (e + 1) % SHIELD_OUTPUT_DRIVERS
        /\ reported
        /\ last_error = "NONE"

\* C29: a FLIPPED district that sees a spike after its recheck time is
\* disabled, its averages are cleared, the lock is released, it is set OFF
\* with the recheck time now + DRIVER_RESET_PERIOD and the driver status is
\* reported; before that time it stays FLIPPED and keeps the lock.
C29_FlippedGivesUp ==
    [][ \A d \in Districts, amps \in {0, AdcHigh} :
          /\ (SpikeStep(d, amps) /\ status[d] = "FLIPPED" /\ now > recheck[d])
                => /\ ~enabled'[d]
                   /\ compound_value'[d] = ZeroLoad
                   /\ flip_lock' = NULL
                   /\ status'[d] = "OFF"
                   /\ recheck'[d] = now + DRIVER_RESET_PERIOD
                   /\ reported'
          /\ (SpikeStep(d, amps) /\ status[d] = "FLIPPED"
                  /\ ~(now > recheck[d]))
                => /\ status'[d] = "FLIPPED"
                   /\ flip_lock' = d
                   /\ UNCHANGED << recheck, enabled, output_phase >>
      ]_vars

\* C29 witness: a district stood FLIPPED past its recheck time, saw a spike
\* and has just been set OFF with the lock released.
C29_Witness ==
    \E d \in Districts :
        /\ status[d] = "OFF"
        /\ ~enabled[d]
        /\ ~output_phase[d]
        /\ compound_value[d] = ZeroLoad
        /\ recheck[d] = now + DRIVER_RESET_PERIOD
        /\ flip_lock = NULL
        /\ output_index = (d + 1) % SHIELD_OUTPUT_DRIVERS
        /\ reported
        /\ last_error = "NONE"
        /\ \A e \in Districts : status[e] # "BLOCKED"

\* C30: a BLOCKED district that sees a spike while the lock is free takes
\* the lock, inverts its phase and becomes FLIPPED, and its recheck time
\* stays the one set when it became BLOCKED.
C30_BlockedFlips ==
    [][ \A d \in Districts, amps \in {0, AdcHigh} :
          (SpikeStep(d, amps) /\ status[d] = "BLOCKED" /\ flip_lock = NULL)
            => /\ flip_lock' = d
               /\ output_phase' = Flip(d)
               /\ status'[d] = "FLIPPED"
               /\ recheck'[d] = recheck[d]
      ]_vars

\* C30 witness: a district has just gone from BLOCKED to FLIPPED: it holds
\* the lock, the status is reported and its recheck time is already past.
C30_Witness ==
    \E d \in Districts :
        /\ status[d] = "FLIPPED"
        /\ flip_lock = d
        /\ ~output_phase[d]
        /\ output_index = (d + 1) % SHIELD_OUTPUT_DRIVERS
        /\ reported
        /\ last_error = "NONE"
        /\ recheck[d] < now


(***************************************************************************)
(* The overload and normal columns of the district monitor, and the grace  *)
(* period.                                                                 *)
(***************************************************************************)
\* a step of the monitor that samples district d with the reading amps
SampleStep(d, amps) ==
    /\ pc = "loop"
    /\ output_index = d
    /\ monitor_current_load(amps)

\* the averages of district d with the reading amps compounded in
Averaged(d, amps) ==
    UpdateAverages(compound_value[d], amps, confirmation_enabled)

\* C31: a sample that shows no spike but a long average above the limit
\* disables the driver; a district that is neither DISABLED nor OFF has its
\* averages cleared, the lock released if and only if it held it, its
\* status set OFF with the recheck time now + DRIVER_RESET_PERIOD and
\* POWER_OVERLOAD logged; a district that is DISABLED or OFF keeps its
\* status and its recheck time.
C31_Overload ==
    [][ \A d \in Districts, amps \in {0, AdcHigh} :
          ( /\ SampleStep(d, amps)
            /\ status[d] # "ON_GRACE"
            /\ ~IsSpike(Averaged(d, amps))
            /\ IsOverload(Averaged(d, amps)) )
            => /\ ~enabled'[d]
               /\ IF status[d] \in {"DISABLED", "OFF"}
                  THEN /\ status'[d] = status[d]
                       /\ recheck'[d] = recheck[d]
                  ELSE /\ compound_value'[d] = ZeroLoad
                       /\ flip_lock' = IF flip_lock = d THEN NULL ELSE flip_lock
                       /\ status'[d] = "OFF"
                       /\ recheck'[d] = now + DRIVER_RESET_PERIOD
                       /\ last_error' = "POWER_OVERLOAD"
      ]_vars

\* C31 witness: an overload has just set a district OFF while another
\* district is FLIPPED and still holds the lock.
C31_Witness ==
    \E d, e \in Districts :
        /\ d # e
        /\ status[d] = "OFF"
        /\ ~enabled[d]
        /\ compound_value[d] = ZeroLoad
        /\ recheck[d] = now + DRIVER_RESET_PERIOD
        /\ last_error = "POWER_OVERLOAD"
        /\ status[e] = "FLIPPED"
        /\ flip_lock = e

\* C31 witness: an overload has just set OFF the district that held the
\* lock, and the lock is free.
C31_WitnessReleased ==
    \E d \in Districts :
        /\ status[d] = "OFF"
        /\ ~output_phase[d]
        /\ last_error = "POWER_OVERLOAD"
        /\ output_index = (d + 1) % SHIELD_OUTPUT_DRIVERS
        /\ flip_lock = NULL
        /\ \A e \in Districts : status[e] \notin {"FLIPPED", "BLOCKED"}


\* C31 witness: a district that is OFF has just been sampled with a long
\* average above the limit and no spike: it is still OFF, its averages are
\* not cleared and its recheck time is the one set when it went OFF.
C31_WitnessOff ==
    /\ status[0] = "OFF"
    /\ ~enabled[0]
    /\ IsOverload(compound_value[0])
    /\ ~IsSpike(compound_value[0])
    /\ recheck[0] > 0
    /\ output_index = 1


\* C32: a FLIPPED district that sees a sample with neither spike nor
\* overload releases the lock and enters ON_GRACE with the recheck time
\* now + POWER_GRACE_PERIOD; a district goes from ON_GRACE to ON only at a
\* sample of it taken when now is past its recheck time; and a sample of a
\* district in ON_GRACE touches neither its averages, nor its driver, nor
\* the lock, nor any phase, and logs nothing.
C32_FlippedRecovers ==
    [][ \A d \in Districts :
          /\ \A amps \in {0, AdcHigh} :
               ( /\ SampleStep(d, amps)
                 /\ status[d] = "FLIPPED"
                 /\ ~IsSpike(Averaged(d, amps))
                 /\ ~IsOverload(Averaged(d, amps)) )
                 => /\ flip_lock' = NULL
                    /\ status'[d] = "ON_GRACE"
                    /\ recheck'[d] = now + POWER_GRACE_PERIOD
          /\ (status[d] = "ON_GRACE" /\ status'[d] = "ON")
                => /\ \E amps \in {0, AdcHigh} : SampleStep(d, amps)
                   /\ now > recheck[d]
          /\ \A amps \in {0, AdcHigh} :
               (SampleStep(d, amps) /\ status[d] = "ON_GRACE")
                 => /\ status'[d] = IF now > recheck[d] THEN "ON" ELSE "ON_GRACE"
                    /\ last_error' = "NONE"
                    /\ UNCHANGED << compound_value, enabled, flip_lock,
                                    output_phase >>
      ]_vars

\* C32 witness: a district whose phase had been flipped has just been put
\* in ON_GRACE by the monitor, and the lock is free; it is too early for a
\* district set OFF to have been retried, so the district came from FLIPPED.
C32_Witness ==
    \E d \in Districts :
        /\ status[d] = "ON_GRACE"
        /\ ~output_phase[d]
        /\ enabled[d]
        /\ recheck[d] = now + POWER_GRACE_PERIOD
        /\ flip_lock = NULL
        /\ reported
        /\ output_index = (d + 1) % SHIELD_OUTPUT_DRIVERS
        /\ now <= DRIVER_RESET_PERIOD


\* C33: a district that is OFF and sees a sample with neither spike nor
\* overload when now is past its recheck time is enabled again and put in
\* ON_GRACE, and a district goes from OFF to ON_GRACE at no other step.
C33_OffRetried ==
    [][ \A d \in Districts :
          /\ \A amps \in {0, AdcHigh} :
               ( /\ SampleStep(d, amps)
                 /\ status[d] = "OFF"
                 /\ ~IsSpike(Averaged(d, amps))
                 /\ ~IsOverload(Averaged(d, amps))
                 /\ now > recheck[d] )
                 => /\ enabled'[d]
                    /\ status'[d] = "ON_GRACE"
                    /\ recheck'[d] = now + POWER_GRACE_PERIOD
          /\ (status[d] = "OFF" /\ (status'[d] = "ON_GRACE" \/ enabled'[d]))
                => /\ now > recheck[d]
                   /\ \E amps \in {0, AdcHigh} :
                        /\ SampleStep(d, amps)
                        /\ ~IsSpike(Averaged(d, amps))
                        /\ ~IsOverload(Averaged(d, amps))
      ]_vars

\* C33: with samples that keep arriving and time that keeps advancing, a
\* district that is OFF with a recheck time that the clock of the model
\* reaches does not stay OFF.
C33_OffLeaves ==
    \A d \in Districts :
        (status[d] = "OFF" /\ recheck[d] < MaxNow) ~> (status[d] # "OFF")

\* C33: a district that is OFF is retried at the first sample with neither
\* spike nor overload taken after its recheck time and at no other step,
\* and, with samples that keep arriving and time that keeps advancing, it
\* does not stay OFF.
C33_RetriedInTime == C33_OffRetried /\ C33_OffLeaves

\* C33 witness: a district that had been set OFF, its averages cleared, has
\* just been enabled again and put in ON_GRACE by the monitor.
C33_Witness ==
    \E d \in Districts :
        /\ status[d] = "ON_GRACE"
        /\ enabled[d]
        /\ compound_value[d] = ZeroLoad
        /\ recheck[d] = now + POWER_GRACE_PERIOD
        /\ reported
        /\ output_index = (d + 1) % SHIELD_OUTPUT_DRIVERS


\* C34: with samples that keep arriving and time that keeps advancing, and
\* whatever power commands come, a district that holds the phase flipping
\* lock, with a recheck time that the clock of the model reaches, does not
\* hold it for ever.
C34_LockReleased ==
    \A d \in Districts :
        (flip_lock = d /\ recheck[d] < MaxNow) ~> (flip_lock # d)


\* average i of district d is, after the step, the mean of the value that
\* came into it (the reading for the first, the new average before it for
\* the others) and of its old value, or is unchanged where a confirmation
\* is awaited and i is above SHORT_AVERAGE_VALUE
Cascaded(d, amps) ==
    \A i \in 0 .. (COMPOUNDED_VALUES - 1) :
        compound_value'[d][i] =
            IF confirmation_enabled /\ i > SHORT_AVERAGE_VALUE
            THEN compound_value[d][i]
            ELSE ((IF i = 0 THEN amps ELSE compound_value'[d][i - 1])
                    + compound_value[d][i]) \div 2

\* C35 as stated: every sample of a district that is not in ON_GRACE leaves
\* its averages compounded: the first SHORT_AVERAGE_VALUE + 1 of them while
\* a confirmation is awaited, all of them in cascade otherwise.
C35_Averaging ==
    [][ \A d \in Districts, amps \in {0, AdcHigh} :
          (SampleStep(d, amps) /\ status[d] # "ON_GRACE") => Cascaded(d, amps)
      ]_vars

\* C35 amended: a sample of a district that is not in ON_GRACE and that
\* does not set the district OFF leaves its averages compounded as above;
\* a sample that sets the district OFF leaves all of them 0.
C35_AveragingUnlessOff ==
    [][ \A d \in Districts, amps \in {0, AdcHigh} :
          (SampleStep(d, amps) /\ status[d] # "ON_GRACE")
            => IF status'[d] = "OFF" /\ status[d] # "OFF"
               THEN compound_value'[d] = ZeroLoad
               ELSE Cascaded(d, amps)
      ]_vars

\* C35 witness: while a confirmation is awaited the short averages of the
\* programming district have risen and its long average has stayed 0, which
\* a cascade through all the averages cannot leave.
C35_Witness ==
    \E d \in Districts :
        /\ confirmation_enabled
        /\ enabled[d]
        /\ compound_value[d][SHORT_AVERAGE_VALUE] >= 2
        /\ compound_value[d][COMPOUNDED_VALUES - 1] = 0


\* C36: as long as the main loop and the signal generator keep running,
\* confirmation mode, once armed, is in time cleared, whatever commands and
\* power mode changes come.
C36_ConfirmationCleared ==
    confirmation_enabled ~> ~confirmation_enabled

\* C37: a district put into ON_GRACE by a power-on command is still in
\* ON_GRACE after a sample taken before any time has passed since that
\* command, the power grace period not having elapsed.
C37_GraceAfterPowerOn ==
    [][\A d \in Districts : \A amps \in 0..AdcHigh :
         ( /\ last_cmd.op = "P" /\ last_cmd.arg \in {1, 2}
           /\ last_error = "NONE"
           /\ status[d] = "ON_GRACE"
           /\ SampleStep(d, amps) )
         => status'[d] = "ON_GRACE"]_vars

\* a submission refused for want of a free buffer
BusyStep(op) ==
    /\ pc = "loop" /\ pc' = "loop" /\ sent' = sent + 1
    /\ last_cmd'.op = op /\ last_error' = "TRANSMISSION_BUSY"

\* a submission refused for want of a pending record
QueueFailStep(op) ==
    /\ pc = "create" /\ cmd.op = op /\ pc' = "loop"
    /\ last_error' = "COMMAND_QUEUE_FAILED"

\* C38: a function command that is refused, for want of a free buffer or
\* of a pending record, leaves the function cache as it was.
C38_RejectedKeepsCache ==
    [][(BusyStep("F") \/ QueueFailStep("F")) => Cache' = Cache]_vars

\* the buffer a submission of c is given, and whether the pending pool then
\* gives out before the packets of c are all queued
Chosen(c) == find_available_buffer(c.base, c.count, c.target)

PoolExhausted(c) ==
    /\ Chosen(c) # NULL
    /\ ~CreateAll(release_pending_recs(Heap(Chosen(c)), FALSE), NULL,
                  Composed(c, Cache).recs, 1).ok

\* C39: a submission refused because the pending pool is exhausted leaves
\* the pending list, the reply and the state of the buffer chosen for it
\* as they were before the submission: neither the step that chooses the
\* buffer nor the step that fails to queue the packets changes them.
C39_RejectedKeepsSlot ==
    /\ [][\A c \in { last_cmd' } :
             ( /\ pc = "loop" /\ sent' = sent + 1 /\ c.op \notin {"P", "none"}
               /\ PoolExhausted(c) )
             => /\ pending'[Chosen(c)] = pending[Chosen(c)]
                /\ reply'[Chosen(c)] = reply[Chosen(c)]
                /\ state'[Chosen(c)] = state[Chosen(c)]]_vars
    /\ [][(pc = "create" /\ pc' = "loop")
             => /\ pending'[buf] = pending[buf]
                /\ reply'[buf] = reply[buf]
                /\ state'[buf] = state[buf]]_vars

\* the interrupt that ends the first half of a bit, the one that ends a bit
\* and starts the next, and among these the one that finds its stream ended
MidBit == ISR /\ remaining = 1 /\ side

BitStart == ISR /\ remaining = 1 /\ ~side

StreamEnd ==
    /\ BitStart /\ left = 1
    /\ Stream(bit_string)[bit_string.idx] = 0

\* the ticks a half of a bit is to last
HalfPeriod(b) == IF b THEN TICKS_FOR_ONE ELSE TICKS_FOR_ZERO

\* C40: once the first bit has started, every bit the interrupt routine
\* puts out is a first half on the off mask and a second half on the on
\* mask, each of 4 ticks for a 1 and of 7 ticks for a 0; the next bit
\* starts on the interrupt that ends the second half, whether it continues
\* the run, starts the next run or starts the stream of the next buffer, and
\* the stream that starts when one ends has bits to send.
C40_BitTiming ==
    /\ [][(MidBit /\ signal # "none")
             => /\ signal = "off" /\ signal' = "on"
                /\ held + 1 = HalfPeriod(one)
                /\ one' = one /\ left' = left /\ bit_string' = bit_string
                /\ remaining' = HalfPeriod(one)]_vars
    /\ [][(BitStart /\ half # 0)
             => /\ signal = "on" /\ signal' = "off"
                /\ held + 1 = half /\ half = HalfPeriod(one)]_vars
    /\ [][BitStart => left' > 0 /\ remaining' = HalfPeriod(one')]_vars
    /\ [][StreamEnd => one' /\ left' = Stream(bit_string')[1]]_vars
    /\ [][ISR /\ remaining # 1 => remaining > 1 /\ signal' = signal]_vars

\* the bit that starts the first run of zeros of a CV write packet, behind
\* the filler and the long preamble, and a buffer change that goes from the
\* packet of one buffer to an idle packet
C40_Witness ==
    /\ bit_string.kind = "bits" /\ bit_string.idx = 3
    /\ ~one /\ side /\ remaining = TICKS_FOR_ZERO /\ signal = "off"
    /\ left = bits[bit_string.slot][2]

C40_WitnessSlotChange ==
    /\ bit_string.kind = "bits" /\ bit_string.idx = 2
    /\ current = PROGRAMMING_BASE_BUFFER
    /\ side /\ held = 0 /\ signal = "off" /\ remaining = TICKS_FOR_ONE
    /\ left = bits[current][1]

C40_WitnessFiller ==
    /\ bit_string.kind = "filler" /\ side /\ held = 0 /\ signal = "off"


====
